---------------------------- MODULE Spec2Model ----------------------------
(***************************************************************************)
(* A model of the Jink language server (server/src): the Symbol Indexer    *)
(* (indexer.ts), the import validation and unused-import check of          *)
(* validateTextDocument, the workspace scan and the document events of     *)
(* server.ts.                                                              *)
(*                                                                         *)
(* Source text is a string; the regular expressions of the source are      *)
(* translated one by one into regular-expression terms and run by a        *)
(* backtracking matcher that follows the ECMAScript matching order         *)
(* (greedy quantifiers, leftmost alternative first).  JavaScript Maps are  *)
(* sequences of entries in insertion order.  Offsets are 0-based as in     *)
(* the source; TLA+ sequences are 1-based, so the character at JS offset k *)
(* of s is Ch(s, k + 1).                                                   *)
(***************************************************************************)
EXTENDS Integers, Sequences, FiniteSets, TLC

(***************************************************************************)
(* Strings                                                                 *)
(***************************************************************************)

\* The character of s at the 1-based position p.
Ch(s, p) == SubSeq(s, p, p)

\* The set of the characters of s.
CharsOf(s) == {Ch(s, p) : p \in 1..Len(s)}

Lower == CharsOf("abcdefghijklmnopqrstuvwxyz")
Upper == CharsOf("ABCDEFGHIJKLMNOPQRSTUVWXYZ")
Digit == CharsOf("0123456789")
\* [a-zA-Z_]
IdStart == Lower \cup Upper \cup {"_"}
\* [a-zA-Z0-9_]   (also \w)
IdChar == IdStart \cup Digit
\* [a-zA-Z0-9_.]
PathChar == IdChar \cup {"."}
\* \s, and the characters String.prototype.trim removes
WhiteSpace == {" ", "\t", "\n", "\r", "\f"}
\* the characters '.' does not match
LineTerminator == {"\n", "\r"}

\* s.substring(k): s from the 0-based offset k on
Substring(s, k) == SubSeq(s, k + 1, Len(s))

\* s.substring(a, b): the 0-based offsets a <= k < b
Substring2(s, a, b) == SubSeq(s, a + 1, b)

\* s.startsWith(sub) at the 1-based position p
StartsAt(s, sub, p) ==
    /\ p >= 1
    /\ p + Len(sub) - 1 <= Len(s)
    /\ SubSeq(s, p, p + Len(sub) - 1) = sub

\* s.endsWith(sub)
EndsWith(s, sub) == StartsAt(s, sub, Len(s) - Len(sub) + 1)

\* s.indexOf(sub, from): the least 0-based offset k >= from at which sub
\* occurs in s, or -1.  A negative from counts as 0.
IndexOfFrom(s, sub, from) ==
    LET first(hits) ==
            IF hits = {} THEN -1 ELSE CHOOSE k \in hits : \A j \in hits : k <= j
    IN  first({k \in (IF from < 0 THEN 0 ELSE from)..Len(s) : StartsAt(s, sub, k + 1)})

\* s.indexOf(sub)
IndexOf(s, sub) == IndexOfFrom(s, sub, 0)

\* s.lastIndexOf(sub)
LastIndexOf(s, sub) ==
    LET final(hits) ==
            IF hits = {} THEN -1 ELSE CHOOSE k \in hits : \A j \in hits : k >= j
    IN  final({k \in 0..Len(s) : StartsAt(s, sub, k + 1)})

\* s.includes(sub)
Includes(s, sub) == IndexOf(s, sub) # -1

\* s.trim(): s from its first to its last character that is no white space
Trim(s) ==
    LET between(solid) ==
            IF solid = {} THEN ""
            ELSE SubSeq(s, CHOOSE p \in solid : \A q \in solid : p <= q,
                           CHOOSE p \in solid : \A q \in solid : p >= q)
    IN  between({p \in 1..Len(s) : Ch(s, p) \notin WhiteSpace})

\* s.split(sep) for a non-empty separator string: the pieces between the
\* occurrences of sep, in order (always at least one piece).
RECURSIVE Split(_, _)
Split(s, sep) ==
    LET cut(k) ==
            IF k = -1
            THEN <<s>>
            ELSE <<Substring2(s, 0, k)>> \o Split(Substring(s, k + Len(sep)), sep)
    IN  cut(IndexOf(s, sep))

\* ' '.repeat(n)
RECURSIVE Spaces(_)
Spaces(n) ==
    IF n <= 0 THEN ""
    ELSE IF n = 1 THEN " "
    ELSE Spaces(n \div 2) \o Spaces(n - (n \div 2))

(***************************************************************************)
(* Regular expressions.  A term is a record with a tag t:                  *)
(*   cls  one character of the set cs          ncls  one character not in  *)
(*   lit  the string s                               the set cs            *)
(*   seq  the terms rs in order                star  r*, greedy            *)
(*   opt  r?, greedy                           alt   a | b, a first        *)
(*   grp  the capturing group number n         bol, eol   ^ and $          *)
(*   wb   \b                                   eolm  $ with the m flag     *)
(*   lstar  r*?, lazy, r a character class                                 *)
(* Every term under a star consumes at least one character.  The star of   *)
(* a character class is matched by trying the run lengths from the longest *)
(* down, which is the order in which backtracking gives characters back.   *)
(***************************************************************************)
Cls(S) == [t |-> "cls", cs |-> S]
NCls(S) == [t |-> "ncls", cs |-> S]
Lit(str) == [t |-> "lit", s |-> str]
Cat(terms) == [t |-> "seq", rs |-> terms]
Star(r) == [t |-> "star", r |-> r]
Plus(r) == [t |-> "seq", rs |-> <<r, Star(r)>>]
Opt(r) == [t |-> "opt", r |-> r]
Alt(a, b) == [t |-> "alt", a |-> a, b |-> b]
Grp(n, r) == [t |-> "grp", n |-> n, r |-> r]
LazyStar(r) == [t |-> "lstar", r |-> r]
Bol == [t |-> "bol"]
Eol == [t |-> "eol"]
EolM == [t |-> "eolm"]
WordB == [t |-> "wb"]
\* . (any character but a line terminator)
Dot == NCls(LineTerminator)
\* \s
Ws == Cls(WhiteSpace)
\* [a-zA-Z_][a-zA-Z0-9_]*
Ident == Cat(<<Cls(IdStart), Star(Cls(IdChar))>>)

NoMatch == [ok |-> FALSE]

\* Whether a word character stands at the 1-based position p of s.
IsWordAt(s, p) == p >= 1 /\ p <= Len(s) /\ Ch(s, p) \in IdChar

\* The backtracking matcher: the terms rs matched in order against s from the
\* 1-based position p, with the captures caps so far (group number -> <<first
\* position, position after the last>>).  The result is the first match in
\* ECMAScript's order, [ok, end, caps], or NoMatch.
RECURSIVE MatchSeq(_, _, _, _)
MatchSeq(rs, s, p, caps) ==
    IF rs = <<>>
    THEN [ok |-> TRUE, end |-> p, caps |-> caps]
    ELSE LET r == Head(rs)
             rest == Tail(rs)
         IN  CASE r.t = "cls" ->
                     IF p <= Len(s) /\ Ch(s, p) \in r.cs
                     THEN MatchSeq(rest, s, p + 1, caps)
                     ELSE NoMatch
               [] r.t = "ncls" ->
                     IF p <= Len(s) /\ Ch(s, p) \notin r.cs
                     THEN MatchSeq(rest, s, p + 1, caps)
                     ELSE NoMatch
               [] r.t = "lit" ->
                     IF StartsAt(s, r.s, p)
                     THEN MatchSeq(rest, s, p + Len(r.s), caps)
                     ELSE NoMatch
               [] r.t = "seq" -> MatchSeq(r.rs \o rest, s, p, caps)
               [] r.t \in {"star", "lstar"} /\ r.r.t \in {"cls", "ncls"} ->
                     LET fits(q) == IF r.r.t = "cls" THEN Ch(s, q) \in r.r.cs
                                    ELSE Ch(s, q) \notin r.r.cs
                         stops == {q \in p..(Len(s) + 1) : q = Len(s) + 1 \/ ~fits(q)}
                         longest == (CHOOSE q \in stops : \A k \in stops : q <= k) - p
                         tried == {<<n, MatchSeq(rest, s, p + n, caps)>> : n \in 0..longest}
                         good == {x \in tried : x[2].ok}
                     IN  IF good = {} THEN NoMatch
                         ELSE IF r.t = "star"
                         THEN (CHOOSE x \in good : \A y \in good : x[1] >= y[1])[2]
                         ELSE (CHOOSE x \in good : \A y \in good : x[1] <= y[1])[2]
               [] r.t = "star" /\ r.r.t \notin {"cls", "ncls"} ->
                     LET more == MatchSeq(<<r.r, r>> \o rest, s, p, caps)
                     IN  IF more.ok THEN more ELSE MatchSeq(rest, s, p, caps)
               [] r.t = "opt" ->
                     LET with == MatchSeq(<<r.r>> \o rest, s, p, caps)
                     IN  IF with.ok THEN with ELSE MatchSeq(rest, s, p, caps)
               [] r.t = "alt" ->
                     LET left == MatchSeq(<<r.a>> \o rest, s, p, caps)
                     IN  IF left.ok THEN left ELSE MatchSeq(<<r.b>> \o rest, s, p, caps)
               [] r.t = "grp" ->
                     MatchSeq(<<r.r, [t |-> "close", n |-> r.n, from |-> p]>> \o rest,
                              s, p, caps)
               [] r.t = "close" ->
                     MatchSeq(rest, s, p, (r.n :> <<r.from, p>>) @@ caps)
               [] r.t = "bol" ->
                     IF p = 1 THEN MatchSeq(rest, s, p, caps) ELSE NoMatch
               [] r.t = "eol" ->
                     IF p = Len(s) + 1 THEN MatchSeq(rest, s, p, caps) ELSE NoMatch
               [] r.t = "eolm" ->
                     IF p = Len(s) + 1 \/ (p <= Len(s) /\ Ch(s, p) \in LineTerminator)
                     THEN MatchSeq(rest, s, p, caps)
                     ELSE NoMatch
               [] r.t = "wb" ->
                     IF IsWordAt(s, p - 1) # IsWordAt(s, p)
                     THEN MatchSeq(rest, s, p, caps)
                     ELSE NoMatch

\* The match of re at exactly the position p: [ok, start, end, caps].
MatchAt(re, s, p) ==
    LET from(m) ==
            IF m.ok THEN [ok |-> TRUE, start |-> p, end |-> m.end, caps |-> m.caps]
            ELSE NoMatch
    IN  from(MatchSeq(<<re>>, s, p, <<>>))

\* regex.exec(s) from the 1-based position p on: the leftmost match.  A
\* regular expression that begins with ^ matches at the first position or
\* nowhere.
ExecFrom(re, s, p) ==
    LET anchored == re.t = "seq" /\ re.rs # <<>> /\ re.rs[1].t = "bol"
        starts == IF anchored THEN {q \in {1} : q >= p} ELSE p..(Len(s) + 1)
        leftmost(hits) ==
            IF hits = {} THEN NoMatch
            ELSE (CHOOSE x \in hits : \A y \in hits : x[1] <= y[1])[2]
    IN  leftmost({x \in {<<q, MatchAt(re, s, q)>> : q \in starts} : x[2].ok})

\* s.match(re) for a regular expression without the g flag
Exec(re, s) == ExecFrom(re, s, 1)

\* match[n] is not undefined
Has(m, n) == n \in DOMAIN m.caps

\* match[n]   (for a group that took part in the match)
Cap(m, s, n) == SubSeq(s, m.caps[n][1], m.caps[n][2] - 1)

\* match[0]
Whole(m, s) == SubSeq(s, m.start, m.end - 1)

\* match.index
Index(m) == m.start - 1

\* Array.from(s.matchAll(re)), re with the g flag: the successive matches,
\* each search starting where the previous match ended (one further after an
\* empty match).
RECURSIVE MatchAllFrom(_, _, _)
MatchAllFrom(re, s, p) ==
    LET after(m) ==
            IF ~m.ok THEN <<>>
            ELSE <<m>> \o MatchAllFrom(re, s, IF m.end = m.start THEN m.end + 1
                                              ELSE m.end)
    IN  after(ExecFrom(re, s, p))

MatchAll(re, s) == MatchAllFrom(re, s, 1)

\* s.split(re) for a re that matches no empty string: the pieces of s
\* between the successive matches of re.
RECURSIVE SplitReFrom(_, _, _)
SplitReFrom(re, s, from) ==
    LET cut(m) ==
            IF ~m.ok THEN <<SubSeq(s, from, Len(s))>>
            ELSE <<SubSeq(s, from, m.start - 1)>> \o SplitReFrom(re, s, m.end)
    IN  cut(ExecFrom(re, s, from))

SplitRe(re, s) == SplitReFrom(re, s, 1)

(***************************************************************************)
(* indexer.ts: the patterns of Indexer.update                              *)
(***************************************************************************)

\* (pub\s+)?   as capturing group 1
PubGroup == Opt(Grp(1, Cat(<<Lit("pub"), Plus(Ws)>>)))

\* /^(pub\s+)?let\s+([a-zA-Z_][a-zA-Z0-9_]*)\s*=/
letPattern ==
    Cat(<<Bol, PubGroup, Lit("let"), Plus(Ws), Grp(2, Ident), Star(Ws), Lit("=")>>)

\* /^(pub\s+)?const\s+([a-zA-Z_][a-zA-Z0-9_]*)\s*=/
constPatternUntyped ==
    Cat(<<Bol, PubGroup, Lit("const"), Plus(Ws), Grp(2, Ident), Star(Ws), Lit("=")>>)

\* /^(pub\s+)?const\s+(?:[a-zA-Z_][a-zA-Z0-9_]*)\s+([a-zA-Z_][a-zA-Z0-9_]*)\s*=/
constPatternTyped ==
    Cat(<<Bol, PubGroup, Lit("const"), Plus(Ws), Ident, Plus(Ws), Grp(2, Ident),
          Star(Ws), Lit("=")>>)

\* /^(pub\s+)?type\s+([a-zA-Z_][a-zA-Z0-9_]*)\s*=/
typeAliasPattern ==
    Cat(<<Bol, PubGroup, Lit("type"), Plus(Ws), Grp(2, Ident), Star(Ws), Lit("=")>>)

\* /^(pub\s+)?type\s+([a-zA-Z_][a-zA-Z0-9_]*)\s*=\s*\{/
typeStructStartPattern ==
    Cat(<<Bol, PubGroup, Lit("type"), Plus(Ws), Grp(2, Ident), Star(Ws), Lit("="),
          Star(Ws), Lit("{")>>)

\* /^(pub\s+)?fun\s+([a-zA-Z_][a-zA-Z0-9_]*)\s*\((.*)\)/
functionPattern ==
    Cat(<<Bol, PubGroup, Lit("fun"), Plus(Ws), Grp(2, Ident), Star(Ws), Lit("("),
          Grp(3, Star(Dot)), Lit(")")>>)

\* /^(pub\s+)?extern\s*\("[^"]*"\)\s+([a-zA-Z_][a-zA-Z0-9_]*)\s*\((.*)\)/
externPattern ==
    Cat(<<Bol, PubGroup, Lit("extern"), Star(Ws), Lit("(\""), Star(NCls({"\""})),
          Lit("\")"), Plus(Ws), Grp(2, Ident), Star(Ws), Lit("("),
          Grp(3, Star(Dot)), Lit(")")>>)

\* /^(pub\s+)?cls\s+([a-zA-Z_][a-zA-Z0-9_]*)\s*(?:\(.*\))?\s*=/
classPattern ==
    Cat(<<Bol, PubGroup, Lit("cls"), Plus(Ws), Grp(2, Ident), Star(Ws),
          Opt(Cat(<<Lit("("), Star(Dot), Lit(")")>>)), Star(Ws), Lit("=")>>)

\* /([a-zA-Z_][a-zA-Z0-9_]*)\s+([a-zA-Z_][a-zA-Z0-9_]*)\s*(?:;|=)/g
varPatternGlobal ==
    Cat(<<Grp(1, Ident), Plus(Ws), Grp(2, Ident), Star(Ws), Cls({";", "="})>>)

\* /^import\s+([a-zA-Z0-9_.]+)(?:\s+as\s+([a-zA-Z0-9_]+))?\s*;?$/
importModulePattern ==
    Cat(<<Bol, Lit("import"), Plus(Ws), Grp(1, Plus(Cls(PathChar))),
          Opt(Cat(<<Plus(Ws), Lit("as"), Plus(Ws), Grp(2, Plus(Cls(IdChar)))>>)),
          Star(Ws), Opt(Lit(";")), Eol>>)

\* /^import\s+([a-zA-Z0-9_.]+)\.\*\s*;?$/
importWildcardPattern ==
    Cat(<<Bol, Lit("import"), Plus(Ws), Grp(1, Plus(Cls(PathChar))), Lit(".*"),
          Star(Ws), Opt(Lit(";")), Eol>>)

\* /^import\s+from\s+([a-zA-Z0-9_.]+)\s*{(.*)}/
importFromPattern ==
    Cat(<<Bol, Lit("import"), Plus(Ws), Lit("from"), Plus(Ws),
          Grp(1, Plus(Cls(PathChar))), Star(Ws), Lit("{"), Grp(2, Star(Dot)),
          Lit("}")>>)

\* /^import\s+from\s+([a-zA-Z0-9_.]+)\s*\{/
importFromStartPattern ==
    Cat(<<Bol, Lit("import"), Plus(Ws), Lit("from"), Plus(Ws),
          Grp(1, Plus(Cls(PathChar))), Star(Ws), Lit("{")>>)

\* /^([a-zA-Z0-9_]+)\s+as\s+([a-zA-Z0-9_]+)$/
asPattern ==
    Cat(<<Bol, Grp(1, Plus(Cls(IdChar))), Plus(Ws), Lit("as"), Plus(Ws),
          Grp(2, Plus(Cls(IdChar))), Eol>>)

\* /\r?\n/g
newlinePattern == Cat(<<Opt(Lit("\r")), Lit("\n")>>)

\* /\s+/
spacesPattern == Plus(Ws)

\* language.ts: keywords
keywords ==
    {"if", "else", "elseif", "return", "del", "fun", "let", "const", "type",
     "cls", "pub", "import", "from", "as", "while", "for", "in", "break",
     "continue", "enum", "extern"}

\* language.ts: builtins
builtins ==
    {"void", "true", "false", "null", "self", "int", "float", "string", "bool",
     "ptr", "obj", "__ptr_write_int", "__ptr_read_int", "__ptr_write_string",
     "__ptr_read_string"}

\* language.ts: declarationKeywords
declarationKeywords == {"let", "const", "type", "enum", "cls", "fun", "extern"}

\* Range.create(l1, c1, l2, c2)
Range(l1, c1, l2, c2) ==
    [start |-> [line |-> l1, character |-> c1],
     end |-> [line |-> l2, character |-> c2]]

\* text.split(/\r?\n/g)
SplitLines(text) == SplitRe(newlinePattern, text)

\* lines[i] for the 0-based index i
LineAt(lines, i) == lines[i + 1]

\* The loop that consumes the lines of a construct left open on its first
\* line (indexer.ts import list and struct body; the same loop in
\* validateTextDocument): while no '}' has been seen and lines remain, append
\* " " and the next line.
RECURSIVE ConsumeLines(_, _, _, _)
ConsumeLines(lines, currentLine, content, endFound) ==
    IF ~endFound /\ currentLine + 1 < Len(lines)
    THEN LET nextLine == LineAt(lines, currentLine + 1)
         IN  ConsumeLines(lines, currentLine + 1, content \o " " \o nextLine,
                          Includes(nextLine, "}"))
    ELSE [currentLine |-> currentLine, content |-> content]

\* The names of a selective import: the comma-separated parts of content,
\* trimmed, the empty ones dropped, each `name as alias` or a bare name.
RECURSIVE ImportNames(_)
ImportNames(parts) ==
    IF parts = <<>> THEN <<>>
    ELSE LET named(p, asMatch) ==
                 IF p = "" THEN <<>>
                 ELSE IF asMatch.ok
                 THEN <<[name |-> Cap(asMatch, p, 1), alias |-> Cap(asMatch, p, 2)]>>
                 ELSE <<[name |-> p]>>
         IN  named(Trim(Head(parts)), Exec(asPattern, Trim(Head(parts))))
             \o ImportNames(Tail(parts))

\* The parameters of a function or extern declaration: for each
\* comma-separated argument, its first two whitespace-separated words as
\* (type, name); an argument of fewer than two words is dropped.
RECURSIVE ParametersOf(_)
ParametersOf(args) ==
    IF args = <<>> THEN <<>>
    ELSE LET parameter(parts) ==
                 IF Len(parts) >= 2
                 THEN <<[name |-> parts[2], type |-> parts[1]]>>
                 ELSE <<>>
         IN  parameter(SplitRe(spacesPattern, Trim(Head(args))))
             \o ParametersOf(Tail(args))

Parameters(argsStr) ==
    IF Trim(argsStr) # "" THEN ParametersOf(Split(argsStr, ",")) ELSE <<>>

\* The fields of a struct body: for each comma-separated field with exactly
\* one ':', the trimmed text before it, when not empty.
RECURSIVE StructFields(_, _, _)
StructFields(fields, uri, i) ==
    IF fields = <<>> THEN <<>>
    ELSE LET child(parts, fieldName) ==
                 IF Len(parts) = 2 /\ fieldName # ""
                 THEN <<[name |-> fieldName, kind |-> "Field", uri |-> uri,
                         range |-> Range(i, 0, i, 0), isPublic |-> TRUE]>>
                 ELSE <<>>
             field(parts) == child(parts, Trim(parts[1]))
         IN  field(Split(Head(fields), ":")) \o StructFields(Tail(fields), uri, i)

\* A Symbol on line i whose range is the first occurrence of its name in line
\* (line.indexOf(name)); nothing when the name does not occur.
NamedSymbol(line, i, uri, name, kind, isPublic, extra) ==
    LET at(startChar) ==
            IF startChar # -1
            THEN <<[name |-> name, kind |-> kind, uri |-> uri,
                    range |-> Range(i, startChar, i, startChar + Len(name)),
                    isPublic |-> isPublic] @@ extra>>
            ELSE <<>>
    IN  at(IndexOf(line, name))

\* The Symbols of the `Type name ;` / `Type name =` matches of a line whose
\* first word is no keyword.
RECURSIVE VarSymbols(_, _, _, _)
VarSymbols(varMatches, line, i, uri) ==
    IF varMatches = <<>> THEN <<>>
    ELSE LET m == Head(varMatches)
             name == Cap(m, line, 2)
             matchStart == Index(m)
             typeLength == Len(Cap(m, line, 1))
             textAfterType == Substring(Whole(m, line), typeLength)
             nameStartInMatch == typeLength + IndexOf(textAfterType, name)
             variable(absoluteStart) ==
                 IF Cap(m, line, 1) \notin keywords
                 THEN <<[name |-> name, kind |-> "Variable", uri |-> uri,
                         range |-> Range(i, absoluteStart, i,
                                         absoluteStart + Len(name)),
                         isPublic |-> FALSE]>>
                 ELSE <<>>
         IN  variable(matchStart + nameStartInMatch)
             \o VarSymbols(Tail(varMatches), line, i, uri)

\* The import of a selective import that ends on line endLine:
\* [found, next, imports]
SelectiveImport(i, modulePath, endLine, endCharacter, content) ==
    [found |-> TRUE, next |-> endLine,
     imports |->
        <<[modulePath |-> modulePath, isWildcard |-> FALSE,
           names |-> ImportNames(Split(content, ",")),
           range |-> Range(i, 0, endLine, endCharacter)]>>]

\* The branch of importFromStartPattern, c the lines consumed: the content
\* is cut at the first '}'
OpenImport(lines, i, modulePath, c) ==
    SelectiveImport(i, modulePath, c.currentLine, Len(LineAt(lines, c.currentLine)),
                    Split(c.content, "}")[1])

\* The "Imports" branches of the scan on the matches of the four patterns,
\* tried in the order of the code
ImportBranches(lines, i, line, mModule, mWildcard, mFrom, mStart) ==
    IF mModule.ok
    THEN [found |-> TRUE, next |-> i,
          imports |->
             <<[modulePath |-> Cap(mModule, line, 1), isWildcard |-> FALSE,
                names |-> <<>>, range |-> Range(i, 0, i, Len(line))]
               @@ (IF Has(mModule, 2) THEN [alias |-> Cap(mModule, line, 2)]
                   ELSE <<>>)>>]
    ELSE IF mWildcard.ok
    THEN [found |-> TRUE, next |-> i,
          imports |->
             <<[modulePath |-> Cap(mWildcard, line, 1), isWildcard |-> TRUE,
                names |-> <<>>, range |-> Range(i, 0, i, Len(line))]>>]
    ELSE IF mFrom.ok
    THEN SelectiveImport(i, Cap(mFrom, line, 1), i, Len(line), Cap(mFrom, line, 2))
    ELSE IF mStart.ok
    THEN OpenImport(lines, i, Cap(mStart, line, 1),
                    ConsumeLines(lines, i, Substring(line, Len(Whole(mStart, line))),
                                 Includes(line, "}")))
    ELSE [found |-> FALSE, next |-> i, imports |-> <<>>]

\* The import record of a line of the text, or nothing (indexer.ts, the
\* "Imports" branches of the scan): [found, imports, next] where next is the
\* index of the last line consumed.
ScanImport(lines, i, line) ==
    ImportBranches(lines, i, line,
                   Exec(importModulePattern, line), Exec(importWildcardPattern, line),
                   Exec(importFromPattern, line), Exec(importFromStartPattern, line))

\* isPublic: !!match[1]
IsPub(m) == Has(m, 1)

\* The symbol a declaration pattern matched with m on line i: [symbols, next]
Declared(line, i, uri, m, kind, extra) ==
    [next |-> i,
     symbols |-> NamedSymbol(line, i, uri, Cap(m, line, 2), kind, IsPub(m), extra)]

\* The struct type typeStructStartPattern matched with m, c the lines
\* consumed: i = currentLine precedes the creation of the range
DeclaredStruct(line, i, uri, m, c) ==
    [next |-> c.currentLine,
     symbols |->
        NamedSymbol(line, c.currentLine, uri, Cap(m, line, 2), "Class", IsPub(m),
                    [children |->
                        StructFields(Split(Split(c.content, "}")[1], ","), uri, i)])]

\* The "Symbols" branches of the scan on the matches of the eight patterns,
\* tried in the order of the code, and the variable check when none matched
SymbolBranches(lines, i, line, uri, mLet, mConstU, mConstT, mStruct, mAlias, mFun, mExtern, mCls) ==
    IF mLet.ok THEN Declared(line, i, uri, mLet, "Variable", <<>>)
    ELSE IF mConstU.ok THEN Declared(line, i, uri, mConstU, "Constant", <<>>)
    ELSE IF mConstT.ok THEN Declared(line, i, uri, mConstT, "Constant", <<>>)
    ELSE IF mStruct.ok
    THEN DeclaredStruct(line, i, uri, mStruct,
                        ConsumeLines(lines, i,
                                     Substring(line, Len(Whole(mStruct, line))),
                                     Includes(line, "}")))
    ELSE IF mAlias.ok THEN Declared(line, i, uri, mAlias, "Class", <<>>)
    ELSE IF mFun.ok
    THEN Declared(line, i, uri, mFun, "Function",
                  [parameters |-> Parameters(Cap(mFun, line, 3))])
    ELSE IF mExtern.ok
    THEN Declared(line, i, uri, mExtern, "Function",
                  [parameters |-> Parameters(Cap(mExtern, line, 3))])
    ELSE IF mCls.ok THEN Declared(line, i, uri, mCls, "Class", <<>>)
    ELSE [next |-> i,
          symbols |-> VarSymbols(MatchAll(varPatternGlobal, line), line, i, uri)]

\* The Symbols of a line that is no import (indexer.ts, the "Symbols" branches
\* and the variable check): [symbols, next].
ScanSymbol(lines, i, line, uri) ==
    SymbolBranches(lines, i, line, uri,
                   Exec(letPattern, line), Exec(constPatternUntyped, line),
                   Exec(constPatternTyped, line), Exec(typeStructStartPattern, line),
                   Exec(typeAliasPattern, line), Exec(functionPattern, line),
                   Exec(externPattern, line), Exec(classPattern, line))

\* One pass of the loop body on the trimmed line: [next, symbols, imports],
\* imp what the import branches gave
ScanStatement(lines, i, line, uri, imp) ==
    IF imp.found
    THEN [next |-> imp.next, symbols |-> <<>>, imports |-> imp.imports]
    ELSE ScanSymbol(lines, i, line, uri) @@ [imports |-> <<>>]

\* if (!line) continue, else the branches
ScanLine(lines, i, line, uri) ==
    IF line = "" THEN [next |-> i, symbols |-> <<>>, imports |-> <<>>]
    ELSE ScanStatement(lines, i, line, uri, ScanImport(lines, i, line))

\* The scan of Indexer.update: for (let i = 0; i < lines.length; i++) over
\* the trimmed lines, the empty ones skipped: [symbols, imports].
RECURSIVE ScanLines(_, _, _, _)
ScanLines(lines, i, uri, acc) ==
    IF i >= Len(lines) THEN acc
    ELSE LET continue(done) ==
                 ScanLines(lines, done.next + 1, uri,
                           [symbols |-> acc.symbols \o done.symbols,
                            imports |-> acc.imports \o done.imports])
         IN  continue(ScanLine(lines, i, Trim(LineAt(lines, i)), uri))

\* newSymbols and newImports of Indexer.update(uri, text)
Extract(uri, text) ==
    ScanLines(SplitLines(text), 0, uri, [symbols |-> <<>>, imports |-> <<>>])

(***************************************************************************)
(* The documents and the texts of the model                                *)
(***************************************************************************)

UriM == "file:///w/src/m.jk"
UriLibM == "file:///w/src/lib/m.jk"
UriApp == "file:///w/src/app.jk"

Uris == {UriM, UriLibM, UriApp}

\* A document that is not under a src directory, and the documents an index
\* may hold
UriOut == "file:///t/util.jk"
Indexable == Uris \cup {UriOut}

\* Module texts
TextAdd == "pub fun add(int a, int b) { return a + b; }\nlet hid = 1;"
TextHid == "let add = 1;\n  pub const int hid = 2;"
TextPoint == "pub type Point = {\n x: int,\n y: int\n}\nimport m.*;\nint add; int add = 3;"
TextEmpty == ""

\* Texts of a document that imports
TextUnknown ==
    "import zz;\nimport zz as z; // zz\nimport zz.*;\nimport from zz { a }\nimport from zz {\n a\n}"
TextSelective == "import from m { add, hid as h, nope }\nimport m;\nlet r = add(1, 2);"
TextMulti ==
    "import from m {\n add as plus,\n hid\n nope\n}\n  import from m { nope, add }"
TextAlias == "import from m { add as (b }"

\* Texts of a document whose symbols are resolved
TextWild == "import m.*;\nlet r = add(1, hid);\nr.x = q;"
TextCall == "fun f(int a, int b) {\n return a + b;\n}\nfun h(int a) { return f(a, 1); }"
TextPub == "pub int x = 1;\nlet e = 5;"
TextRest == "fun v(int n, ...args) { return args.len + n; }"
TextPrivate == "import from m { hid }"
TextAliasHid == "import from m { hid, add as (b }"
TextUsed == "import from m { add };\nlet s = add(1, 2);"
TextBlock == "/* a\n b */\nimport zz;\nlet k = q; // zz"
TextCommented == "import m as mm; // module\nlet k = mm.hid;"
TextOrder == "import zz;\nimport from m { add, nope };\nimport m as mm;\nlet k = q + w + q;"
TextInside == "import from m { abc, x, b };"
TextGhost == "/*\nimport zz;\nlet ghost = 1;\n*/\nlet k = ghost;"

\* The texts Indexer.update is called with in the specification of the
\* Indexer alone
IndexTexts == {TextAdd, TextHid, TextPoint, TextEmpty, TextSelective}

\* The texts the importing document is opened and edited with
AppTexts == {TextUnknown, TextSelective, TextMulti, TextAlias}

\* The documents the client opens, and the texts it gives each
Openable == {UriApp, UriM}
OpenTexts == (UriApp :> AppTexts) @@ (UriM :> {TextHid})

\* The texts of the importing document in the specification of the
\* validation alone
AnalysisTexts ==
    {TextWild, TextCall, TextPub, TextRest, TextPrivate, TextAliasHid, TextUsed,
     TextSelective, TextAdd, TextBlock, TextCommented, TextOrder, TextInside,
     TextGhost}

\* Texts of a document in which definitions and completions are requested
TextBoth == "import m.*;\nimport from m { hid as add }\nlet z = add;"
TextNamed == "import from m { hid as add }\nimport m.*;\nlet z = add;"
TextLib == "import lib.m;\nlet k = m.hid;"
TextOwn == "pub fun own() { }\nlet k = ad"
TextDup == "let ad = 1;\nlet ad = 2;\nad"
RequestTexts ==
    {TextBoth, TextNamed, TextLib, TextWild, TextSelective, TextPub, TextOwn, TextDup}

\* Every text of the model
Texts ==
    {TextAdd, TextHid, TextPoint, TextEmpty} \cup AppTexts \cup AnalysisTexts
        \cup RequestTexts

\* The workspace on disk: the folders the client reports, the entries
\* readdirSync lists for each directory, in its order, and the content of
\* each file
WorkspaceFolders == <<"file:///w">>
Dirs ==
    ("/w" :> <<"node_modules", "src">>) @@ ("/w/node_modules" :> <<"x.jk">>)
        @@ ("/w/src" :> <<"lib", "m.jk", "notes.txt">>) @@ ("/w/src/lib" :> <<"m.jk">>)
Files ==
    ("/w/node_modules/x.jk" :> TextAdd) @@ ("/w/src/lib/m.jk" :> TextHid)
        @@ ("/w/src/m.jk" :> TextAdd) @@ ("/w/src/notes.txt" :> "notes")

\* The paths the file system may refuse to read, one at most in a run: a
\* directory's readdirSync throws, a file's readFileSync throws
Deniable == {"/w/src/lib", "/w/src/lib/m.jk", "/w/src/m.jk"}
Denials == {{}} \cup {{path} : path \in Deniable}

\* The extraction of Indexer.update tabulated for the documents and texts of
\* the model: it depends on nothing but uri and text
Extracted == [uri \in Indexable |-> [text \in Texts |-> Extract(uri, text)]]

\* The symbols and imports Indexer.update extracts from text for uri
Parse(uri, text) ==
    IF uri \in Indexable /\ text \in Texts THEN Extracted[uri][text]
    ELSE Extract(uri, text)

(***************************************************************************)
(* JavaScript Map: a sequence of entries [key, val] in insertion order.    *)
(***************************************************************************)

\* map.has(k)
MapHas(map, k) == \E n \in 1..Len(map) : map[n].key = k

\* map.get(k), for a key the map has
MapGet(map, k) == map[CHOOSE n \in 1..Len(map) : map[n].key = k].val

\* map.set(k, v): the value of an existing key is replaced in place, a new
\* key is appended
MapSet(map, k, v) ==
    IF MapHas(map, k)
    THEN [n \in 1..Len(map) |-> IF map[n].key = k THEN [key |-> k, val |-> v] ELSE map[n]]
    ELSE Append(map, [key |-> k, val |-> v])

\* map.delete(k)
MapDelete(map, k) == SelectSeq(map, LAMBDA e : e.key # k)

\* Array.from(map.keys())
MapKeys(map) == [n \in 1..Len(map) |-> map[n].key]

\* [...map.values()]
MapValues(map) == [n \in 1..Len(map) |-> map[n].val]

\* The concatenation of a sequence of sequences
RECURSIVE Flatten(_)
Flatten(seqs) == IF seqs = <<>> THEN <<>> ELSE Head(seqs) \o Flatten(Tail(seqs))

\* The set of the elements of a sequence
Elems(seq) == {seq[n] : n \in 1..Len(seq)}

(***************************************************************************)
(* indexer.ts: class Indexer.  An index is the record of its three maps.   *)
(***************************************************************************)

\* new Indexer()
EmptyIndex == [symbolsByName |-> <<>>, symbolsByUri |-> <<>>, importsByUri |-> <<>>]

\* A pruning that deletes the whole list of each name of the document,
\* whoever owns the symbols on it
RECURSIVE DropNames(_, _, _)
DropNames(byName, symbols, uri) ==
    IF symbols = <<>> THEN byName
    ELSE DropNames(MapDelete(byName, Head(symbols).name), Tail(symbols), uri)

\* The loop of Indexer.remove over the document's symbols: each one's name
\* list is filtered of the symbols of uri, and deleted when left empty.
RECURSIVE PruneNames(_, _, _)
PruneNames(byName, symbols, uri) ==
    IF symbols = <<>> THEN byName
    ELSE LET sym == Head(symbols)
             newList == SelectSeq(MapGet(byName, sym.name), LAMBDA x : x.uri # uri)
         IN  PruneNames(IF ~MapHas(byName, sym.name) THEN byName
                        ELSE IF Len(newList) = 0 THEN MapDelete(byName, sym.name)
                        ELSE MapSet(byName, sym.name, newList),
                        Tail(symbols), uri)

\* A removal that deletes the entries of uri and leaves the by-name map alone
RemoveKeepNames(idx, uri) ==
    [idx EXCEPT !.symbolsByUri = MapDelete(@, uri),
                !.importsByUri = MapDelete(@, uri)]

\* A removal that deletes the imports of uri only
RemoveImportsOnly(idx, uri) ==
    [idx EXCEPT !.importsByUri = MapDelete(@, uri)]

\* Indexer.remove(uri)
IndexerRemove(idx, uri) ==
    IF MapHas(idx.symbolsByUri, uri)
    THEN [symbolsByName |-> PruneNames(idx.symbolsByName,
                                       MapGet(idx.symbolsByUri, uri), uri),
          symbolsByUri |-> MapDelete(idx.symbolsByUri, uri),
          importsByUri |-> MapDelete(idx.importsByUri, uri)]
    ELSE [idx EXCEPT !.importsByUri = MapDelete(@, uri)]

\* The loop of Indexer.update over the new symbols: each is pushed on the
\* list of its name.
RECURSIVE PushNames(_, _)
PushNames(byName, symbols) ==
    IF symbols = <<>> THEN byName
    ELSE LET sym == Head(symbols)
             list == IF MapHas(byName, sym.name) THEN MapGet(byName, sym.name) ELSE <<>>
         IN  PushNames(MapSet(byName, sym.name, Append(list, sym)), Tail(symbols))

\* The second half of Indexer.update: the extracted symbols and imports are
\* set for uri and the symbols entered by name.
IndexerInsert(idx, uri, new) ==
    [symbolsByName |-> PushNames(idx.symbolsByName, new.symbols),
     symbolsByUri |-> MapSet(idx.symbolsByUri, uri, new.symbols),
     importsByUri |-> MapSet(idx.importsByUri, uri, new.imports)]

\* An update that does not remove the old entries of uri first
UpdateNoRemove(idx, uri, text) ==
    IndexerInsert(idx, uri, Parse(uri, text))

\* Indexer.update(uri, text)
IndexerUpdate(idx, uri, text) ==
    IndexerInsert(IndexerRemove(idx, uri), uri, Parse(uri, text))

\* Indexer.getImports(uri)
getImports(idx, uri) ==
    IF MapHas(idx.importsByUri, uri) THEN MapGet(idx.importsByUri, uri) ELSE <<>>

\* Indexer.getDefinition(name)
getDefinition(idx, name) ==
    IF MapHas(idx.symbolsByName, name) THEN MapGet(idx.symbolsByName, name) ELSE <<>>

\* Indexer.getAllSymbols()
getAllSymbols(idx) == Flatten(MapValues(idx.symbolsByName))

\* Indexer.getKnownUris()
getKnownUris(idx) == MapKeys(idx.symbolsByUri)

\* Indexer.getSymbolsInUri(uri)
getSymbolsInUri(idx, uri) ==
    IF MapHas(idx.symbolsByUri, uri) THEN MapGet(idx.symbolsByUri, uri) ELSE <<>>

(***************************************************************************)
(* server.ts: validateTextDocument, comment stripping and import           *)
(* validation                                                              *)
(***************************************************************************)

\* /\/\/.*$/gm
lineCommentPattern == Cat(<<Lit("//"), Star(Dot), EolM>>)

\* /\/\*[\s\S]*?\*\//g
blockCommentPattern == Cat(<<Lit("/*"), LazyStar(NCls({})), Lit("*/")>>)

\* text.replace(re, match => ' '.repeat(match.length)) over the successive
\* matches, from the 1-based position from on
RECURSIVE BlankMatches(_, _, _)
BlankMatches(text, matches, from) ==
    IF matches = <<>> THEN SubSeq(text, from, Len(text))
    ELSE LET m == Head(matches)
         IN  SubSeq(text, from, m.start - 1) \o Spaces(m.end - m.start)
             \o BlankMatches(text, Tail(matches), m.end)

BlankAll(text, re) == BlankMatches(text, MatchAll(re, text), 1)

\* cleanText: the text with its line comments, then its block comments,
\* replaced by spaces
StripComments(text) == BlankAll(BlankAll(text, lineCommentPattern), blockCommentPattern)

\* /^import\s+from\s+([a-zA-Z0-9_.]+)\s*(?:{(.*)})?/
importMatchPattern ==
    Cat(<<Bol, Lit("import"), Plus(Ws), Lit("from"), Plus(Ws),
          Grp(1, Plus(Cls(PathChar))), Star(Ws),
          Opt(Cat(<<Lit("{"), Grp(2, Star(Dot)), Lit("}")>>))>>)

\* /^import\s+from\s+([a-zA-Z0-9_.]+)\s*\{/
importStartMatchPattern ==
    Cat(<<Bol, Lit("import"), Plus(Ws), Lit("from"), Plus(Ws),
          Grp(1, Plus(Cls(PathChar))), Star(Ws), Lit("{")>>)

\* /^import\s+([a-zA-Z0-9_.]+)\.\*\s*;?/
wildcardImportMatchPattern ==
    Cat(<<Bol, Lit("import"), Plus(Ws), Grp(1, Plus(Cls(PathChar))), Lit(".*"),
          Star(Ws), Opt(Lit(";"))>>)

\* /^import\s+([a-zA-Z0-9_.]+)(?:\s+as\s+([a-zA-Z0-9_]+))?\s*;?/
simpleImportMatchPattern ==
    Cat(<<Bol, Lit("import"), Plus(Ws), Grp(1, Plus(Cls(PathChar))),
          Opt(Cat(<<Plus(Ws), Lit("as"), Plus(Ws), Grp(2, Plus(Cls(IdChar)))>>)),
          Star(Ws), Opt(Lit(";"))>>)

\* /\s+as\s+/
asSplitPattern == Cat(<<Plus(Ws), Lit("as"), Plus(Ws)>>)

\* /as\s+([a-zA-Z0-9_]+)/
asAliasPattern == Cat(<<Lit("as"), Plus(Ws), Grp(1, Plus(Cls(IdChar)))>>)

\* parts.join(sep)
RECURSIVE Join(_, _)
Join(parts, sep) ==
    IF parts = <<>> THEN ""
    ELSE IF Len(parts) = 1 THEN parts[1]
    ELSE parts[1] \o sep \o Join(Tail(parts), sep)

\* importPath.replace(/\./g, '/') + '.jk'
ExpectedSuffix(importPath) == Join(Split(importPath, "."), "/") \o ".jk"

\* knownUris.find(u => u.endsWith(expectedSuffix)): the first known document
\* with the suffix, [found, uri]
FindModule(idx, importPath) ==
    LET first(knownUris, hits) ==
            IF hits = {} THEN [found |-> FALSE]
            ELSE [found |-> TRUE,
                  uri |-> knownUris[CHOOSE n \in hits : \A k \in hits : n <= k]]
        ending(knownUris, expectedSuffix) ==
            first(knownUris,
                  {n \in 1..Len(knownUris) : EndsWith(knownUris[n], expectedSuffix)})
    IN  ending(getKnownUris(idx), ExpectedSuffix(importPath))

\* moduleSymbols.find(s => s.name === symName): [found, sym]
FindSymbol(moduleSymbols, symName) ==
    LET first(hits) ==
            IF hits = {} THEN [found |-> FALSE]
            ELSE [found |-> TRUE,
                  sym |-> moduleSymbols[CHOOSE n \in hits : \A k \in hits : n <= k]]
    IN  first({n \in 1..Len(moduleSymbols) : moduleSymbols[n].name = symName})

\* A diagnostic with the constant source tag
Diagnostic(severity, range, message) ==
    [severity |-> severity, range |-> range, message |-> message, source |-> "jink"]

ModuleNotFound(importPath) == "Module '" \o importPath \o "' not found."

SymbolNotFound(symName, importPath) ==
    "Symbol '" \o symName \o "' not found in module '" \o importPath \o "'."

SymbolNotPublic(symName, importPath) ==
    "Symbol '" \o symName \o "' is not public in module '" \o importPath \o "'."

ImportUnused(name) == "Import '" \o name \o "' is unused."

\* The "Module not found" error of an import on line i, on the first
\* occurrence of importPath in the line
ModuleError(line, i, importPath) ==
    LET at(start) ==
            Diagnostic("Error", Range(i, start, i, start + Len(importPath)),
                       ModuleNotFound(importPath))
    IN  at(IndexOf(line, importPath))

\* The search of the consumed lines i..currentLine for name: the first line
\* holding it and its first offset there, [found, line, character]
FindInLines(lines, i, currentLine, name) ==
    LET at(foundLine) ==
            [found |-> TRUE, line |-> foundLine,
             character |-> IndexOf(LineAt(lines, foundLine), name)]
        first(hits) ==
            IF hits = {} THEN [found |-> FALSE]
            ELSE at(CHOOSE k \in hits : \A j \in hits : k <= j)
    IN  first({k \in i..currentLine : IndexOf(LineAt(lines, k), name) # -1})

\* parts[1] || symName
AliasOrName(parts) == IF Len(parts) >= 2 /\ parts[2] # "" THEN parts[2] ELSE parts[1]

\* A name recorded for the unused-import check
ImportedName(name, l, c) == [name |-> name, range |-> Range(l, c, l, c + Len(name))]

\* The diagnostics and imported names of two checks, in order
Both(r, rest) ==
    [diagnostics |-> r.diagnostics \o rest.diagnostics,
     importedNames |-> r.importedNames \o rest.importedNames]

\* The imported symbols of a multi-line selective import (lines i to
\* currentLine) checked against the module's symbols:
\* [diagnostics, importedNames]
RECURSIVE CheckMultiLineSymbols(_, _, _, _, _, _)
CheckMultiLineSymbols(importedSymbols, moduleSymbols, importPath, lines, i, currentLine) ==
    IF importedSymbols = <<>> THEN [diagnostics |-> <<>>, importedNames |-> <<>>]
    ELSE LET error(at, symName, message) ==
                 IF at.found
                 THEN <<Diagnostic("Error",
                                   Range(at.line, at.character, at.line,
                                         at.character + Len(symName)),
                                   message)>>
                 ELSE <<>>
             errors(symbol, symName) ==
                 IF ~symbol.found
                 THEN error(FindInLines(lines, i, currentLine, symName), symName,
                            SymbolNotFound(symName, importPath))
                 ELSE IF ~symbol.sym.isPublic
                 THEN error(FindInLines(lines, i, currentLine, symName), symName,
                            SymbolNotPublic(symName, importPath))
                 ELSE <<>>
             name(searchName, atSearch) ==
                 IF atSearch.found
                 THEN <<ImportedName(searchName, atSearch.line, atSearch.character)>>
                 ELSE <<>>
             names(symbol, searchName) ==
                 IF symbol.found
                 THEN name(searchName, FindInLines(lines, i, currentLine, searchName))
                 ELSE <<>>
             judged(parts, symbol) ==
                 [diagnostics |-> errors(symbol, parts[1]),
                  importedNames |-> names(symbol, AliasOrName(parts))]
             checked(parts) ==
                 IF parts[1] = "" THEN [diagnostics |-> <<>>, importedNames |-> <<>>]
                 ELSE judged(parts, FindSymbol(moduleSymbols, parts[1]))
         IN  Both(checked(SplitRe(asSplitPattern, Trim(Head(importedSymbols)))),
                  CheckMultiLineSymbols(Tail(importedSymbols), moduleSymbols,
                                        importPath, lines, i, currentLine))

\* The imported symbols of a single-line selective import on line i
\* checked against the module's symbols: [diagnostics, importedNames]
RECURSIVE CheckSingleLineSymbols(_, _, _, _, _)
CheckSingleLineSymbols(importedSymbols, moduleSymbols, importPath, line, i) ==
    IF importedSymbols = <<>> THEN [diagnostics |-> <<>>, importedNames |-> <<>>]
    ELSE LET error(symStart, symName, message) ==
                 <<Diagnostic("Error", Range(i, symStart, i, symStart + Len(symName)),
                              message)>>
             errors(symbol, symName) ==
                 IF ~symbol.found
                 THEN error(IndexOfFrom(line, symName, IndexOf(line, "{")), symName,
                            SymbolNotFound(symName, importPath))
                 ELSE IF ~symbol.sym.isPublic
                 THEN error(IndexOfFrom(line, symName, IndexOf(line, "{")), symName,
                            SymbolNotPublic(symName, importPath))
                 ELSE <<>>
             name(searchName, symStart) ==
                 IF symStart # -1 THEN <<ImportedName(searchName, i, symStart)>>
                 ELSE <<>>
             names(symbol, searchName) ==
                 IF symbol.found
                 THEN name(searchName,
                           IndexOfFrom(line, searchName, IndexOf(line, "{")))
                 ELSE <<>>
             judged(parts, symbol) ==
                 [diagnostics |-> errors(symbol, parts[1]),
                  importedNames |-> names(symbol, AliasOrName(parts))]
             checked(parts) ==
                 IF parts[1] = "" THEN [diagnostics |-> <<>>, importedNames |-> <<>>]
                 ELSE judged(parts, FindSymbol(moduleSymbols, parts[1]))
         IN  Both(checked(SplitRe(asSplitPattern, Trim(Head(importedSymbols)))),
                  CheckSingleLineSymbols(Tail(importedSymbols), moduleSymbols,
                                         importPath, line, i))

\* The result of an import whose module is not among the known documents
UnknownModule(line, i, importPath) ==
    [diagnostics |-> <<ModuleError(line, i, importPath)>>, importedNames |-> <<>>]

\* A multi-line selective import of importPath, c the lines consumed and
\* module what the search of the known documents gave
MultiLineSymbols(lines, i, line, idx, importPath, c, module) ==
    (IF ~module.found THEN UnknownModule(line, i, importPath)
     ELSE CheckMultiLineSymbols(Split(Split(c.content, "}")[1], ","),
                                getSymbolsInUri(idx, module.uri),
                                importPath, lines, i, c.currentLine))
    @@ [next |-> c.currentLine]

\* The branch of a multi-line selective import that starts on line i, m the
\* match of importStartMatch: [diagnostics, importedNames, next], next the
\* last line consumed
MultiLineImport(lines, i, line, idx, m) ==
    MultiLineSymbols(lines, i, line, idx, Cap(m, line, 1),
                     ConsumeLines(lines, i, Substring(line, Len(Whole(m, line))), FALSE),
                     FindModule(idx, Cap(m, line, 1)))

\* `import from M` without a list: the alias of asMatch, if any, is an
\* imported name
AliasImport(line, i, asMatch) ==
    IF asMatch.ok
    THEN [diagnostics |-> <<>>,
          importedNames |->
             <<ImportedName(Cap(asMatch, line, 1), i,
                            IndexOf(line, Cap(asMatch, line, 1)))>>]
    ELSE [diagnostics |-> <<>>, importedNames |-> <<>>]

\* A selective import on one line, module what the search of the known
\* documents gave
SingleLineSymbols(line, i, idx, importPath, importedSymbolsStr, module) ==
    IF ~module.found THEN UnknownModule(line, i, importPath)
    ELSE IF importedSymbolsStr # ""
    THEN CheckSingleLineSymbols(Split(importedSymbolsStr, ","),
                                getSymbolsInUri(idx, module.uri), importPath, line, i)
    ELSE AliasImport(line, i, Exec(asAliasPattern, line))

\* The branch `if (importMatch)`, m the match: a selective import on one
\* line, or `import from M` without a list
FromImport(line, i, idx, m) ==
    SingleLineSymbols(line, i, idx, Cap(m, line, 1),
                      IF Has(m, 2) THEN Cap(m, line, 2) ELSE "",
                      FindModule(idx, Cap(m, line, 1)))

\* The branch `else if (wildcardImportMatch)`, m the match
WildcardImport(line, i, idx, m) ==
    IF ~FindModule(idx, Cap(m, line, 1)).found
    THEN UnknownModule(line, i, Cap(m, line, 1))
    ELSE [diagnostics |-> <<>>, importedNames |-> <<>>]

\* The branch `else if (simpleImportMatch)`, m the match: `import M;` or
\* `import M as A;`
SimpleImport(line, i, idx, m) ==
    LET importPath == Cap(m, line, 1)
        named(name, start) ==
            [diagnostics |-> <<>>, importedNames |-> <<ImportedName(name, i, start)>>]
        final(name) ==
            named(name, IndexOf(line, importPath) + LastIndexOf(importPath, name))
        module(parts) == final(parts[Len(parts)])
        aliased(alias) == named(alias, IndexOf(line, alias))
    IN  IF ~FindModule(idx, importPath).found
        THEN UnknownModule(line, i, importPath)
        ELSE IF Has(m, 2) THEN aliased(Cap(m, line, 2))
        ELSE module(Split(importPath, "."))

\* The branches of the loop body on the four matches of the line
ImportStatement(lines, i, line, idx, importMatch, importStartMatch, wildcardImportMatch, simpleImportMatch) ==
    IF importStartMatch.ok /\ ~Includes(line, "}")
    THEN MultiLineImport(lines, i, line, idx, importStartMatch)
    ELSE (IF importMatch.ok THEN FromImport(line, i, idx, importMatch)
          ELSE IF wildcardImportMatch.ok
          THEN WildcardImport(line, i, idx, wildcardImportMatch)
          ELSE IF simpleImportMatch.ok
          THEN SimpleImport(line, i, idx, simpleImportMatch)
          ELSE [diagnostics |-> <<>>, importedNames |-> <<>>])
         @@ [next |-> i]

\* The import statement, if any, that starts on line i of the comment-free
\* lines: [diagnostics, importedNames, next]
CheckImportLine(lines, i, idx) ==
    ImportStatement(lines, i, LineAt(lines, i), idx,
                    Exec(importMatchPattern, LineAt(lines, i)),
                    Exec(importStartMatchPattern, LineAt(lines, i)),
                    Exec(wildcardImportMatchPattern, LineAt(lines, i)),
                    Exec(simpleImportMatchPattern, LineAt(lines, i)))

\* The loop over the lines: for (let i = 0; i < lines.length; i++)
RECURSIVE CheckImports(_, _, _, _)
CheckImports(lines, i, idx, acc) ==
    IF i >= Len(lines) THEN acc
    ELSE LET continue(r) == CheckImports(lines, r.next + 1, idx, Both(acc, r))
         IN  continue(CheckImportLine(lines, i, idx))

(***************************************************************************)
(* The unused-import check                                                 *)
(***************************************************************************)

\* The characters of an imported name that this model of the RegExp
\* constructor reads: word characters and blanks stand for themselves, '('
\* and ')' group.
RECURSIVE GroupDepth(_, _, _)
GroupDepth(src, p, depth) ==
    IF depth < 0 \/ p > Len(src) THEN depth
    ELSE GroupDepth(src, p + 1,
                    IF Ch(src, p) = "(" THEN depth + 1
                    ELSE IF Ch(src, p) = ")" THEN depth - 1
                    ELSE depth)

\* The pattern without its grouping parentheses
RECURSIVE Ungrouped(_)
Ungrouped(src) ==
    IF src = "" THEN ""
    ELSE (IF Ch(src, 1) \in {"(", ")"} THEN "" ELSE Ch(src, 1))
         \o Ungrouped(Substring(src, 1))

\* new RegExp(`\\b${name}\\b`, 'g'): a SyntaxError (ok = FALSE) when a ')'
\* has no '(' or a '(' is left open; otherwise the expression
NewWordRegExp(name) ==
    IF GroupDepth(name, 1, 0) # 0 THEN [ok |-> FALSE]
    ELSE [ok |-> TRUE, re |-> Cat(<<WordB, Lit(Ungrouped(name)), WordB>>)]

\* The loop "Check for unused imports": [threw, diagnostics]; threw when
\* the RegExp constructor throws for one of the names
RECURSIVE CheckUnused(_, _)
CheckUnused(importedNames, cleanText) ==
    IF importedNames = <<>> THEN [threw |-> FALSE, diagnostics |-> <<>>]
    ELSE LET imp == Head(importedNames)
             warned(matches, rest) ==
                 IF rest.threw THEN rest
                 ELSE [threw |-> FALSE,
                       diagnostics |->
                          (IF Len(matches) = 1
                           THEN <<Diagnostic("Warning", imp.range,
                                             ImportUnused(imp.name))>>
                           ELSE <<>>) \o rest.diagnostics]
             matched(regex) ==
                 IF ~regex.ok THEN [threw |-> TRUE, diagnostics |-> <<>>]
                 ELSE warned(MatchAll(regex.re, cleanText),
                             CheckUnused(Tail(importedNames), cleanText))
         IN  matched(NewWordRegExp(imp.name))

\* The diagnostics sent: those of the imports, then those of the unused
\* names; nothing is sent when the unused-import check threw
Returned(checked, unused) ==
    IF unused.threw THEN [threw |-> TRUE, diagnostics |-> <<>>]
    ELSE [threw |-> FALSE, diagnostics |-> checked.diagnostics \o unused.diagnostics]

\* The unused-import check on what the loop over the lines gave
UnusedImports(cleanText, checked) ==
    Returned(checked, CheckUnused(checked.importedNames, cleanText))

\* The loop over the lines of the comment-free text and what follows it
ValidateLines(cleanText, idx) ==
    UnusedImports(cleanText,
                  CheckImports(SplitLines(cleanText), 0, idx,
                               [diagnostics |-> <<>>, importedNames |-> <<>>]))

(***************************************************************************)
(* server.ts: validateTextDocument, symbol resolution and scope analysis   *)
(***************************************************************************)

\* keywords.join('|'): the words as alternatives, in their order
RECURSIVE AnyOf(_)
AnyOf(words) ==
    IF Len(words) = 1 THEN Lit(words[1])
    ELSE Alt(Lit(Head(words)), AnyOf(Tail(words)))

keywordPattern ==
    AnyOf(<<"if", "else", "elseif", "return", "del", "fun", "let", "const", "type",
            "cls", "pub", "import", "from", "as", "while", "for", "in", "break",
            "continue", "enum", "extern">>)

\* [{}();=.,:\[\]+\-*/%<>&|!^~]
Punctuation == CharsOf("{}();=.,:[]+-*/%<>&|!^~")

\* ("(?:[^"\\]|\\.)*")|(\b(keywords)\b)|(\b[a-zA-Z_][a-zA-Z0-9_]*\b)|(\->)|
\* ([{}();=.,:\[\]+\-*/%<>&|!^~]), with the g flag
tokenRegex ==
    Alt(Grp(1, Cat(<<Lit("\""),
                     Star(Alt(NCls({"\"", "\\"}), Cat(<<Lit("\\"), Dot>>))),
                     Lit("\"")>>)),
        Alt(Grp(2, Cat(<<WordB, Grp(3, keywordPattern), WordB>>)),
            Alt(Grp(4, Cat(<<WordB, Cls(IdStart), Star(Cls(IdChar)), WordB>>)),
                Alt(Grp(5, Lit("->")), Grp(6, Cls(Punctuation))))))

\* regex.exec(s) for a regular expression with the g flag whose lastIndex is
\* the 1-based position p: the match at the first position from p on that
\* has one
RECURSIVE ExecGlobal(_, _, _)
ExecGlobal(re, s, p) ==
    IF p > Len(s) + 1 THEN NoMatch
    ELSE LET at(m) == IF m.ok THEN m ELSE ExecGlobal(re, s, p + 1)
         IN  at(MatchAt(re, s, p))

\* s[k] for the 0-based offset k, the empty string standing for undefined
CharAt(s, k) == IF k >= 0 /\ k < Len(s) THEN Ch(s, k + 1) ELSE ""

\* textDocument.positionAt(offset): a line ends with \r\n, \n or \r
PositionAt(text, offset) ==
    LET lineOffsets ==
            {0} \cup {k + 1 : k \in {j \in 0..(Len(text) - 1) :
                                        \/ CharAt(text, j) = "\n"
                                        \/ /\ CharAt(text, j) = "\r"
                                           /\ CharAt(text, j + 1) # "\n"}}
        before == {o \in lineOffsets : o <= offset}
    IN  [line |-> Cardinality(before) - 1,
         character |-> offset - (CHOOSE o \in before : \A q \in before : o >= q)]

\* /^[a-zA-Z_][a-zA-Z0-9_]*$/.test(s)
LooksLikeIdentifier(s) ==
    /\ s # ""
    /\ Ch(s, 1) \in IdStart
    /\ \A p \in 2..Len(s) : Ch(s, p) \in IdChar

\* The names an import makes available: the aliases or names of its list,
\* its alias, or the last segment of the path of `import M;`
RECURSIVE LocalNames(_)
LocalNames(names) ==
    IF names = <<>> THEN {}
    ELSE {IF "alias" \in DOMAIN Head(names) /\ Head(names).alias # ""
          THEN Head(names).alias ELSE Head(names).name}
         \cup LocalNames(Tail(names))

LastSegment(modulePath) == Split(modulePath, ".")[Len(Split(modulePath, "."))]

ImportScope(imp) ==
    LocalNames(imp.names)
        \cup (IF "alias" \in DOMAIN imp /\ imp.alias # "" THEN {imp.alias}
              ELSE IF imp.names = <<>> /\ ~imp.isWildcard
              THEN {LastSegment(imp.modulePath)}
              ELSE {})

\* array.indexOf(x): the 0-based index of the first element equal to x, or -1
SeqIndexOf(seq, x) ==
    LET first(hits) ==
            IF hits = {} THEN -1 ELSE (CHOOSE n \in hits : \A k \in hits : n <= k) - 1
    IN  first({n \in 1..Len(seq) : seq[n] = x})

\* knownRoots: for each known document with a 'src' segment that is not its
\* last, the segment after the first 'src'
KnownRoot(uri) ==
    LET root(parts, srcIndex) ==
            IF srcIndex # -1 /\ srcIndex < Len(parts) - 1
            THEN {parts[srcIndex + 2]} ELSE {}
    IN  root(Split(uri, "/"), SeqIndexOf(Split(uri, "/"), "src"))

\* globalScope: the builtins, the Symbols the index has for the document,
\* the names of its imports, the known roots
GlobalScope(uri, idx) ==
    builtins
        \cup {s.name : s \in Elems(getSymbolsInUri(idx, uri))}
        \cup UNION {ImportScope(imp) : imp \in Elems(getImports(idx, uri))}
        \cup UNION {KnownRoot(u) : u \in Elems(getKnownUris(idx))}

\* The state of the scan at its start.  declared and usages are not in the
\* code: they keep, for each identifier token, the offset and name of what
\* was added to a scope or to pendingArgs, and of what reached the usage
\* check, with whether a scope of the stack had it then.
ScanStart(uri, idx) ==
    [scopeStack |-> <<GlobalScope(uri, idx)>>, pendingArgs |-> <<>>,
     stateStack |-> <<"NORMAL">>, lastToken |-> "", lastDeclKeyword |-> "",
     lastTokenWasKeyword |-> FALSE, expectingFunArgs |-> FALSE,
     diagnostics |-> <<>>, declared |-> <<>>, usages |-> <<>>]

Top(stack) == stack[Len(stack)]
Pop(stack) == SubSeq(stack, 1, Len(stack) - 1)

\* if (isString)
StringToken(st) ==
    [st EXCEPT !.lastToken = "string", !.lastTokenWasKeyword = FALSE,
               !.expectingFunArgs = FALSE]

\* if (isArrow)
ArrowToken(st) ==
    [st EXCEPT !.stateStack = Append(@, "RETURN_TYPE"), !.lastToken = "->",
               !.lastTokenWasKeyword = FALSE]

\* if (isKeyword)
KeywordToken(st, keyword) ==
    [st EXCEPT !.lastDeclKeyword = IF keyword \in declarationKeywords THEN keyword ELSE @,
               !.expectingFunArgs = keyword \in {"fun", "cls"},
               !.stateStack = IF keyword = "import" THEN Append(@, "IMPORT_STMT")
                              ELSE IF keyword = "extern" THEN Append(@, "EXTERN_DECL")
                              ELSE @,
               !.lastToken = keyword, !.lastTokenWasKeyword = TRUE]

\* The state pushed for a '{' that opens a scope
OpenedState(st) ==
    IF st.lastToken = "type" THEN "STRUCT_BODY"
    ELSE IF st.lastDeclKeyword = "enum" /\ st.lastToken = "=" THEN "ENUM_BODY"
    ELSE IF st.lastToken \in {"=", "(", ",", ":", "return", "["} THEN "OBJECT_LITERAL"
    ELSE "NORMAL"

\* An opening brace that opens a scope in an import as well
OpenBraceScoped(st, currentState, states) ==
    [st EXCEPT !.expectingFunArgs = FALSE,
               !.scopeStack = Append(@, Elems(st.pendingArgs)),
               !.pendingArgs = <<>>,
               !.stateStack = Append(states, IF currentState = "IMPORT_STMT"
                                             THEN "IMPORT_STMT" ELSE OpenedState(st)),
               !.lastToken = "{", !.lastTokenWasKeyword = FALSE]

\* punctuation === '{', the state stack being states once a return type is
\* left.  In an import the token is not made the last token.
OpenBrace(st, currentState, states) ==
    IF currentState = "IMPORT_STMT"
    THEN [st EXCEPT !.expectingFunArgs = FALSE,
                    !.stateStack = Append(states, "IMPORT_STMT")]
    ELSE [st EXCEPT !.expectingFunArgs = FALSE,
                    !.scopeStack = Append(@, Elems(st.pendingArgs)),
                    !.pendingArgs = <<>>,
                    !.stateStack = Append(states, OpenedState(st)),
                    !.lastToken = "{", !.lastTokenWasKeyword = FALSE]

\* A closing brace that pops a scope and a state whatever is left of them
CloseBraceUnguarded(st, currentState) ==
    IF currentState = "IMPORT_STMT"
    THEN [st EXCEPT !.expectingFunArgs = FALSE, !.stateStack = Pop(@)]
    ELSE [st EXCEPT !.expectingFunArgs = FALSE,
                    !.scopeStack = Pop(@),
                    !.stateStack = Pop(@),
                    !.lastToken = "}", !.lastTokenWasKeyword = FALSE]

\* punctuation === '}'
CloseBrace(st, currentState) ==
    IF currentState = "IMPORT_STMT"
    THEN [st EXCEPT !.expectingFunArgs = FALSE, !.stateStack = Pop(@)]
    ELSE [st EXCEPT !.expectingFunArgs = FALSE,
                    !.scopeStack = IF Len(@) > 1 THEN Pop(@) ELSE @,
                    !.stateStack = IF Len(@) > 1 THEN Pop(@) ELSE @,
                    !.lastToken = "}", !.lastTokenWasKeyword = FALSE]

\* punctuation === '('
OpenParen(st, currentState) ==
    [st EXCEPT !.stateStack =
                   IF st.expectingFunArgs THEN Append(@, "FUN_ARGS")
                   ELSE IF currentState = "EXTERN_DECL"
                   THEN Append(@, IF st.lastToken = "extern" THEN "EXTERN_ABI"
                                  ELSE "FUN_ARGS")
                   ELSE @,
               !.expectingFunArgs = FALSE,
               !.lastToken = "(", !.lastTokenWasKeyword = FALSE]

\* punctuation === ')'
CloseParen(st, currentState) ==
    [st EXCEPT !.expectingFunArgs = FALSE,
               !.stateStack = IF currentState \in {"FUN_ARGS", "EXTERN_ABI"}
                              THEN Pop(@) ELSE @,
               !.lastToken = ")", !.lastTokenWasKeyword = FALSE]

\* A semicolon that leaves a dangling EXTERN_DECL on the state stack
SemicolonKeepsExtern(st, states) ==
    [st EXCEPT !.stateStack = states,
               !.pendingArgs = <<>>, !.expectingFunArgs = FALSE,
               !.lastToken = ";", !.lastTokenWasKeyword = FALSE]

\* punctuation === ';', the state stack being states once an import or a
\* return type is left
Semicolon(st, states) ==
    [st EXCEPT !.stateStack = IF Top(states) = "EXTERN_DECL" THEN Pop(states)
                              ELSE states,
               !.pendingArgs = <<>>, !.expectingFunArgs = FALSE,
               !.lastToken = ";", !.lastTokenWasKeyword = FALSE]

\* if (isPunctuation)
PunctuationToken(st, punctuation, currentState) ==
    IF punctuation = "{"
    THEN OpenBrace(st, currentState,
                   IF currentState = "RETURN_TYPE" THEN Pop(st.stateStack)
                   ELSE st.stateStack)
    ELSE IF punctuation = "}" THEN CloseBrace(st, currentState)
    ELSE IF punctuation = "(" THEN OpenParen(st, currentState)
    ELSE IF punctuation = ")" THEN CloseParen(st, currentState)
    ELSE IF punctuation = ";"
    THEN Semicolon(st, IF currentState \in {"IMPORT_STMT", "RETURN_TYPE"}
                       THEN Pop(st.stateStack) ELSE st.stateStack)
    ELSE [st EXCEPT !.expectingFunArgs = FALSE,
                    !.lastToken = punctuation, !.lastTokenWasKeyword = FALSE]

\* The offset of the first character that is no white space, from j on,
\* going by step (cleanText.length when there is none going forward, -1
\* going back)
RECURSIVE SkipSpace(_, _, _)
SkipSpace(cleanText, j, step) ==
    IF j >= 0 /\ j < Len(cleanText) /\ CharAt(cleanText, j) \in WhiteSpace
    THEN SkipSpace(cleanText, j + step, step)
    ELSE j

\* The identifier is preceded by ':' (a type usage among function
\* arguments)
AfterColon(cleanText, index) == CharAt(cleanText, SkipSpace(cleanText, index - 1, -1)) = ":"

\* The identifier is followed by ':' (a field or a key)
BeforeColon(cleanText, index, identifier) ==
    CharAt(cleanText, SkipSpace(cleanText, index + Len(identifier), 1)) = ":"

\* A property-access check that finds none
NoMemberAccess(cleanText, index) == FALSE

\* "Check if property access": the identifier at the offset index is
\* preceded by '.', and not by the rest marker '...'
IsMemberAccess(cleanText, index) ==
    /\ index > 0
    /\ CharAt(cleanText, index - 1) = "."
    /\ ~(index >= 3 /\ Substring2(cleanText, index - 3, index) = "...")

\* A wildcard check that takes the private Symbols of the module as well
ByWildcardPrivate(uri, idx, identifier) ==
    \E imp \in Elems(getImports(idx, uri)) :
        /\ imp.isWildcard
        /\ FindModule(idx, imp.modulePath).found
        /\ \E s \in Elems(getSymbolsInUri(idx, FindModule(idx, imp.modulePath).uri)) :
              s.name = identifier

\* "Check wildcard imports": a wildcard import of the document whose module
\* is known has a public Symbol named identifier
ByWildcard(uri, idx, identifier) ==
    \E imp \in Elems(getImports(idx, uri)) :
        /\ imp.isWildcard
        /\ FindModule(idx, imp.modulePath).found
        /\ \E s \in Elems(getSymbolsInUri(idx, FindModule(idx, imp.modulePath).uri)) :
              s.name = identifier /\ s.isPublic

UndefinedSymbol(identifier) == "Undefined symbol '" \o identifier \o "'."

\* lastToken = identifier; lastTokenWasKeyword = false
Passed(st, identifier) ==
    [st EXCEPT !.lastToken = identifier, !.lastTokenWasKeyword = FALSE]

\* scopeStack[scopeStack.length - 1].add(identifier)
Declare(st, index, identifier) ==
    [Passed(st, identifier) EXCEPT
        !.scopeStack[Len(st.scopeStack)] = @ \cup {identifier},
        !.declared = Append(@, [index |-> index, name |-> identifier])]

\* "Usage Check": scoped when a scope of the stack has the identifier,
\* imported when the wildcard imports give it, else the error at pos
UsageCheck(st, index, identifier, scoped, imported, pos) ==
    [Passed(st, identifier) EXCEPT
        !.expectingFunArgs = FALSE,
        !.usages = Append(@, [index |-> index, name |-> identifier,
                              scoped |-> scoped]),
        !.diagnostics =
            IF scoped \/ imported THEN @
            ELSE Append(@, Diagnostic("Error",
                                      Range(pos.line, pos.character, pos.line,
                                            pos.character + Len(identifier)),
                                      UndefinedSymbol(identifier)))]

\* if (isIdentifier)
IdentifierToken(st, identifier, index, currentState, uri, text, cleanText, idx) ==
    IF IsMemberAccess(cleanText, index)
    THEN [Passed(st, identifier) EXCEPT !.expectingFunArgs = FALSE]
    ELSE IF currentState \in {"IMPORT_STMT", "RETURN_TYPE", "EXTERN_ABI", "ENUM_BODY"}
    THEN Passed(st, identifier)
    ELSE IF st.lastToken \in declarationKeywords
    THEN Declare(st, index, identifier)
    ELSE IF ~st.lastTokenWasKeyword /\ LooksLikeIdentifier(st.lastToken)
    THEN Declare(st, index, identifier)
    ELSE IF currentState = "EXTERN_DECL"
    THEN Declare(st, index, identifier)
    ELSE IF currentState = "FUN_ARGS" /\ ~AfterColon(cleanText, index)
    THEN [Passed(st, identifier) EXCEPT
             !.expectingFunArgs = FALSE,
             !.pendingArgs = Append(@, identifier),
             !.declared = Append(@, [index |-> index, name |-> identifier])]
    ELSE IF /\ currentState \in {"STRUCT_BODY", "OBJECT_LITERAL"}
            /\ BeforeColon(cleanText, index, identifier)
    THEN [Passed(st, identifier) EXCEPT !.expectingFunArgs = FALSE]
    ELSE UsageCheck(st, index, identifier,
                    \E k \in 1..Len(st.scopeStack) : identifier \in st.scopeStack[k],
                    ByWildcard(uri, idx, identifier), PositionAt(text, index))

\* The body of the loop for the token matched with m
Token(st, m, uri, text, cleanText, idx) ==
    IF Has(m, 1) THEN StringToken(st)
    ELSE IF Has(m, 5) THEN ArrowToken(st)
    ELSE IF Has(m, 2) THEN KeywordToken(st, Cap(m, cleanText, 3))
    ELSE IF Has(m, 6)
    THEN PunctuationToken(st, Cap(m, cleanText, 6), Top(st.stateStack))
    ELSE IdentifierToken(st, Cap(m, cleanText, 4), Index(m), Top(st.stateStack),
                         uri, text, cleanText, idx)

\* while ((match = tokenRegex.exec(cleanText)) !== null), lastIndex being
\* the 1-based position p.  The state after a token is a value before the
\* loop goes on.
RECURSIVE Tokens(_, _, _, _, _, _)
Tokens(st, p, uri, text, cleanText, idx) ==
    LET next(m) ==
            IF ~m.ok THEN st
            ELSE CHOOSE end \in {Tokens(after, m.end, uri, text, cleanText, idx) :
                                    after \in {Token(st, m, uri, text, cleanText, idx)}} :
                    TRUE
    IN  next(ExecGlobal(tokenRegex, cleanText, p))

\* The scope analysis of the document: the state the scan ends in
ScopeAnalysis(uri, text, cleanText, idx) ==
    Tokens(ScanStart(uri, idx), 1, uri, text, cleanText, idx)

\* return diagnostics: those found before the scope analysis, then its own
Scoped(found, scanned) ==
    [threw |-> FALSE, diagnostics |-> found.diagnostics \o scanned.diagnostics,
     declared |-> scanned.declared, usages |-> scanned.usages]

\* The validation of the document uri after the await, on its text and the
\* index as they are then: what the import validation and the unused-import
\* check found, then the scope analysis unless the former threw:
\* [threw, diagnostics, declared, usages]
Analysed(found, uri, text, idx) ==
    IF found.threw
    THEN [threw |-> TRUE, diagnostics |-> <<>>, declared |-> <<>>, usages |-> <<>>]
    ELSE Scoped(found, ScopeAnalysis(uri, text, StripComments(text), idx))

Analysis(uri, text, idx) ==
    Analysed(ValidateLines(StripComments(text), idx), uri, text, idx)

\* validateTextDocument(textDocument): [threw, diagnostics]
validateTextDocument(uri, text, idx) ==
    LET sent(done) == [threw |-> done.threw, diagnostics |-> done.diagnostics]
    IN  sent(Analysis(uri, text, idx))

(***************************************************************************)
(* server.ts: completion                                                   *)
(***************************************************************************)

\* s.toLowerCase()
RECURSIVE ToLowerCase(_)
ToLowerCase(s) ==
    IF s = "" THEN ""
    ELSE (IF Ch(s, 1) \in Upper
          THEN Ch("abcdefghijklmnopqrstuvwxyz",
                  IndexOf("ABCDEFGHIJKLMNOPQRSTUVWXYZ", Ch(s, 1)) + 1)
          ELSE Ch(s, 1))
         \o ToLowerCase(Substring(s, 1))

\* The tail `\s*=\s*(.*)$` of the patterns of the declared names
Assigned(n) == Cat(<<Star(Ws), Lit("="), Star(Ws), Grp(n, Star(Dot)), Eol>>)

\* The patterns of parseJinkDocumentNamesAsCompletionItem with the group of
\* the name and the kind of the item, in the order they are tried:
\* let, const, typed const, type alias, struct type, fun, cls, variable
NamePatterns ==
    <<[re |-> Cat(<<Bol, Lit("let"), Plus(Ws), Grp(1, Ident), Assigned(2)>>),
       name |-> 1, kind |-> "Variable"],
      [re |-> Cat(<<Bol, PubGroup, Lit("const"), Plus(Ws), Grp(2, Ident), Assigned(3)>>),
       name |-> 2, kind |-> "Constant"],
      [re |-> Cat(<<Bol, PubGroup, Lit("const"), Plus(Ws), Grp(2, Ident), Star(Ws),
                    Grp(3, Ident), Assigned(4)>>),
       name |-> 3, kind |-> "Constant"],
      [re |-> Cat(<<Bol, PubGroup, Lit("type"), Plus(Ws), Grp(2, Ident), Star(Ws),
                    Lit("="), Star(Ws), Grp(3, Ident)>>),
       name |-> 2, kind |-> "TypeParameter"],
      [re |-> Cat(<<Bol, PubGroup, Lit("type"), Plus(Ws), Grp(2, Ident), Star(Ws),
                    Lit("="), Star(Ws), Lit("{"), Grp(3, Star(Dot)), Lit("}")>>),
       name |-> 2, kind |-> "Struct"],
      [re |-> Cat(<<Bol, PubGroup, Lit("fun"), Plus(Ws), Grp(2, Ident), Star(Ws),
                    Lit("("), Star(Dot), Lit(")"), Star(Ws)>>),
       name |-> 2, kind |-> "Function"],
      [re |-> Cat(<<Bol, PubGroup, Lit("cls"), Plus(Ws), Grp(2, Ident), Star(Ws),
                    Opt(Grp(3, Cat(<<Lit("("), Star(Dot), Lit(")")>>))), Star(Ws),
                    Lit("="), Star(Ws), Grp(4, Star(Dot))>>),
       name |-> 2, kind |-> "Class"],
      [re |-> Cat(<<Bol, Grp(1, Ident), Star(Ws), Grp(2, Ident), Star(Ws),
                    Grp(3, Alt(Lit(";"), Cat(<<Star(Ws), Lit("="), Star(Ws),
                                               Grp(4, Star(Dot))>>)))>>),
       name |-> 2, kind |-> "Variable"]>>

\* The item of the first of the patterns from the k-th on that matches line
RECURSIVE NameOfLine(_, _)
NameOfLine(line, k) ==
    IF k > Len(NamePatterns) THEN <<>>
    ELSE LET named(m) ==
                 IF m.ok
                 THEN <<[label |-> Cap(m, line, NamePatterns[k].name),
                         kind |-> NamePatterns[k].kind]>>
                 ELSE NameOfLine(line, k + 1)
         IN  named(Exec(NamePatterns[k].re, line))

\* parseJinkDocumentNamesAsCompletionItem(document), on the lines of its text
RECURSIVE parseJinkDocumentNamesAsCompletionItem(_)
parseJinkDocumentNamesAsCompletionItem(lines) ==
    IF lines = <<>> THEN <<>>
    ELSE NameOfLine(Head(lines), 1)
         \o parseJinkDocumentNamesAsCompletionItem(Tail(lines))

\* The names that start with word, whatever the case
RECURSIVE Suggestions(_, _)
Suggestions(definedNames, word) ==
    IF definedNames = <<>> THEN <<>>
    ELSE (IF StartsAt(ToLowerCase(Head(definedNames).label), ToLowerCase(word), 1)
          THEN <<Head(definedNames)>> ELSE <<>>)
         \o Suggestions(Tail(definedNames), word)

\* getAutocompleteSuggestions(document, position): word is what follows the
\* last white space of the line
getAutocompleteSuggestions(text, position) ==
    LET suggested(pieces) ==
            Suggestions(parseJinkDocumentNamesAsCompletionItem(SplitLines(text)),
                        pieces[Len(pieces)])
    IN  suggested(SplitRe(spacesPattern, LineAt(SplitLines(text), position)))

\* A guard of the auto-import that lets every Symbol through
AnySymbol(sym, documentUri) == TRUE

\* symUri !== currentUri && sym.isPublic
Importable(sym, documentUri) ==
    ToLowerCase(sym.uri) # ToLowerCase(documentUri) /\ sym.isPublic

\* sym.uri.endsWith(expectedSuffix) || symUri.endsWith(expectedSuffix.toLowerCase()):
\* the completion takes the document uri for the module of the import
WildcardCovers(imp, uri) ==
    \/ EndsWith(uri, ExpectedSuffix(imp.modulePath))
    \/ EndsWith(ToLowerCase(uri), ToLowerCase(ExpectedSuffix(imp.modulePath)))

\* "Check if already imported": an import of the document has the name in
\* its list, or is a wildcard import whose suffix ends the uri of the Symbol
AlreadyImported(imports, sym) ==
    \E k \in 1..Len(imports) :
        \/ \E n \in Elems(imports[k].names) :
              (IF "alias" \in DOMAIN n /\ n.alias # "" THEN n.alias ELSE n.name)
                  = sym.name
        \/ /\ imports[k].isWildcard
           /\ WildcardCovers(imports[k], sym.uri)

\* "Calculate module path": the segments after the first 'src' joined by
\* '.', without the '.jk' of the file name; empty when there is no such
\* segment or no such ending
ModulePath(uri) ==
    LET from(parts, srcIndex) ==
            IF /\ srcIndex # -1 /\ srcIndex < Len(parts) - 1
               /\ EndsWith(parts[Len(parts)], ".jk")
            THEN Join(SubSeq(parts, srcIndex + 2, Len(parts) - 1)
                          \o <<Substring2(parts[Len(parts)], 0,
                                          Len(parts[Len(parts)]) - 3)>>, ".")
            ELSE ""
    IN  from(Split(uri, "/"), SeqIndexOf(Split(uri, "/"), "src"))

\* The completion kind of the item of a Symbol
ItemKind(kind) == IF kind \in {"Function", "Class", "Constant"} THEN kind ELSE "Variable"

\* items.push of the auto-import of sym from modulePath
AutoImport(sym, modulePath) ==
    [label |-> sym.name, kind |-> ItemKind(sym.kind),
     detail |-> "Auto-import from " \o modulePath,
     additionalTextEdits |->
        <<[range |-> Range(0, 0, 0, 0),
           newText |-> "import from " \o modulePath \o " { " \o sym.name \o " };\n"]>>]

\* The labels of items
Labels(items) == {items[k].label : k \in 1..Len(items)}

\* for (const sym of allSymbols): the items after the Symbols from the k-th
\* on, addedLabels being the labels of items
RECURSIVE AutoImports(_, _, _, _, _)
AutoImports(allSymbols, k, documentUri, imports, items) ==
    IF k > Len(allSymbols) THEN items
    ELSE IF /\ Importable(allSymbols[k], documentUri)
            /\ ~AlreadyImported(imports, allSymbols[k])
            /\ allSymbols[k].name \notin Labels(items)
            /\ ModulePath(allSymbols[k].uri) # ""
    THEN AutoImports(allSymbols, k + 1, documentUri, imports,
                     Append(items, AutoImport(allSymbols[k],
                                              ModulePath(allSymbols[k].uri))))
    ELSE AutoImports(allSymbols, k + 1, documentUri, imports, items)

\* connection.onCompletion for the open document uri with the text text, at
\* the line position.line
onCompletion(uri, text, line, idx) ==
    AutoImports(getAllSymbols(idx), 1, uri, getImports(idx, uri),
                getAutocompleteSuggestions(text, line))

(***************************************************************************)
(* server.ts: definition                                                   *)
(***************************************************************************)

\* /[a-zA-Z0-9_]+/g
wordRegex == Plus(Cls(IdChar))

\* The first of the matches from the k-th on that character lies in or next
\* to: [found, word, start]
RECURSIVE WordAmong(_, _, _, _)
WordAmong(matches, k, line, character) ==
    IF k > Len(matches) THEN [found |-> FALSE]
    ELSE IF /\ character >= Index(matches[k])
            /\ character <= Index(matches[k]) + Len(Whole(matches[k], line))
    THEN [found |-> TRUE, word |-> Whole(matches[k], line), start |-> Index(matches[k])]
    ELSE WordAmong(matches, k + 1, line, character)

\* getWordAtPosition(line, character): [found, word, start], start being the
\* exactStart the handler searches again
getWordAtPosition(line, character) == WordAmong(MatchAll(wordRegex, line), 1, line, character)

\* Location.create(uri, range)
Location(uri, range) == [uri |-> uri, range |-> range]

\* /^import\s+(?:from\s+)?([a-zA-Z0-9_.]+)/
importPathPattern ==
    Cat(<<Bol, Lit("import"), Plus(Ws), Opt(Cat(<<Lit("from"), Plus(Ws)>>)),
          Grp(1, Plus(Cls(PathChar)))>>)

\* "Check for import path": the locations returned there, [found, locations]
ImportPathDefinition(line, character, idx) ==
    LET resolved(module) ==
            IF module.found
            THEN [found |-> TRUE, locations |-> <<Location(module.uri, Range(0, 0, 0, 0))>>]
            ELSE [found |-> FALSE]
        within(importPath, start) ==
            IF character >= start /\ character <= start + Len(importPath)
            THEN resolved(FindModule(idx, importPath))
            ELSE [found |-> FALSE]
        matched(importMatch) ==
            IF importMatch.ok
            THEN within(Cap(importMatch, line, 1), IndexOf(line, Cap(importMatch, line, 1)))
            ELSE [found |-> FALSE]
    IN  matched(Exec(importPathPattern, line))

\* n.alias || n.name
AliasOrOwnName(n) == IF "alias" \in DOMAIN n /\ n.alias # "" THEN n.alias ELSE n.name

\* imp.names.find(n => (n.alias || n.name) === word): [found, name]
NamedImport(names, word) ==
    LET first(hits) ==
            IF hits = {} THEN [found |-> FALSE]
            ELSE [found |-> TRUE,
                  name |-> names[CHOOSE n \in hits : \A k \in hits : n <= k].name]
    IN  first({n \in 1..Len(names) : AliasOrOwnName(names[n]) = word})

\* moduleSymbols.find(s => s.name === word && s.isPublic): [found, sym]
FindPublic(moduleSymbols, word) ==
    LET first(hits) ==
            IF hits = {} THEN [found |-> FALSE]
            ELSE [found |-> TRUE,
                  sym |-> moduleSymbols[CHOOSE n \in hits : \A k \in hits : n <= k]]
    IN  first({n \in 1..Len(moduleSymbols) :
                  moduleSymbols[n].name = word /\ moduleSymbols[n].isPublic})

\* The Symbol called targetName of the module of modulePath, public when
\* exported is asked: [found, sym]
TargetSymbol(idx, modulePath, targetName, exported) ==
    LET in(module) ==
            IF ~module.found THEN [found |-> FALSE]
            ELSE IF exported THEN FindPublic(getSymbolsInUri(idx, module.uri), targetName)
            ELSE FindSymbol(getSymbolsInUri(idx, module.uri), targetName)
    IN  in(FindModule(idx, modulePath))

\* "2. Check imports": for each import from the k-th on, in their order, its
\* named import of word, then its wildcard: [found, locations]
RECURSIVE ImportsDefinition(_, _, _, _)
ImportsDefinition(imports, k, word, idx) ==
    IF k > Len(imports) THEN [found |-> FALSE]
    ELSE LET located(target) ==
                 [found |-> TRUE,
                  locations |-> <<Location(target.sym.uri, target.sym.range)>>]
             wildcard(target) ==
                 IF target.found THEN located(target)
                 ELSE ImportsDefinition(imports, k + 1, word, idx)
             named(target) ==
                 IF target.found THEN located(target)
                 ELSE IF imports[k].isWildcard
                 THEN wildcard(TargetSymbol(idx, imports[k].modulePath, word, TRUE))
                 ELSE ImportsDefinition(imports, k + 1, word, idx)
             bound(namedImport) ==
                 IF namedImport.found
                 THEN named(TargetSymbol(idx, imports[k].modulePath,
                                         namedImport.name, FALSE))
                 ELSE named([found |-> FALSE])
         IN  bound(NamedImport(imports[k].names, word))

\* imp.alias, the empty string standing for undefined
AliasOf(imp) == IF "alias" \in DOMAIN imp THEN imp.alias ELSE ""

\* imports.find(...) of "3. Check for module.symbol access": the first
\* import whose alias, path or last segment is prevWord
ModuleImport(imports, prevWord) ==
    LET first(hits) ==
            IF hits = {} THEN [found |-> FALSE]
            ELSE [found |-> TRUE,
                  imp |-> imports[CHOOSE n \in hits : \A k \in hits : n <= k]]
    IN  first({n \in 1..Len(imports) :
                  \/ AliasOf(imports[n]) = prevWord
                  \/ /\ AliasOf(imports[n]) = ""
                     /\ \/ imports[n].modulePath = prevWord
                        \/ EndsWith(imports[n].modulePath, "." \o prevWord)})

\* "3. Check for module.symbol access": [found, locations]
MemberDefinition(line, word, exactStart, imports, idx) ==
    LET located(target) ==
            IF target.found
            THEN [found |-> TRUE,
                  locations |-> <<Location(target.sym.uri, target.sym.range)>>]
            ELSE [found |-> FALSE]
        of(moduleImport) ==
            IF moduleImport.found
            THEN located(TargetSymbol(idx, moduleImport.imp.modulePath, word, TRUE))
            ELSE [found |-> FALSE]
        after(prevWord) ==
            IF prevWord.found THEN of(ModuleImport(imports, prevWord.word))
            ELSE [found |-> FALSE]
    IN  IF exactStart > 0 /\ CharAt(line, exactStart - 1) = "."
        THEN after(getWordAtPosition(line, exactStart - 2))
        ELSE [found |-> FALSE]

\* imports.find(...) of "4. Check if word is module alias/name"
MatchingImport(imports, word) ==
    LET first(hits) ==
            IF hits = {} THEN [found |-> FALSE]
            ELSE [found |-> TRUE,
                  imp |-> imports[CHOOSE n \in hits : \A k \in hits : n <= k]]
    IN  first({n \in 1..Len(imports) :
                  \/ AliasOf(imports[n]) = word /\ word # ""
                  \/ AliasOf(imports[n]) = "" /\ LastSegment(imports[n].modulePath) = word})

\* "4. Check if word is module alias/name", else the empty result
AliasDefinition(uri, matchingImport) ==
    IF matchingImport.found THEN <<Location(uri, matchingImport.imp.range)>> ELSE <<>>

\* "Check for identifier": the locations for the word found at the position
WordDefinition(uri, line, w, idx) ==
    LET byMember(member) ==
            IF member.found THEN member.locations
            ELSE AliasDefinition(uri, MatchingImport(getImports(idx, uri), w.word))
        byImports(imported) ==
            IF imported.found THEN imported.locations
            ELSE byMember(MemberDefinition(line, w.word, w.start, getImports(idx, uri), idx))
        byLocal(localDef) ==
            IF localDef.found THEN <<Location(localDef.sym.uri, localDef.sym.range)>>
            ELSE byImports(ImportsDefinition(getImports(idx, uri), 1, w.word, idx))
    IN  byLocal(FindSymbol(getSymbolsInUri(idx, uri), w.word))

\* connection.onDefinition for the open document uri with the text text, at
\* a position of one of its lines
onDefinition(uri, text, line, character, idx) ==
    LET byWord(w) == IF w.found THEN WordDefinition(uri, LineAt(SplitLines(text), line), w, idx) ELSE <<>>
        byPath(path) ==
            IF path.found THEN path.locations
            ELSE byWord(getWordAtPosition(LineAt(SplitLines(text), line), character))
    IN  byPath(ImportPathDefinition(LineAt(SplitLines(text), line), character, idx))

(***************************************************************************)
(* server.ts: the workspace scan                                           *)
(***************************************************************************)

\* fileURLToPath and pathToFileURL for the file: URIs of the model
fileURLToPath(uri) == Substring(uri, Len("file://"))
pathToFileURL(path) == "file://" \o path

\* The directory names getAllJinkFiles does not enter
SkippedDirs == {".git", "node_modules", "dist", "out", "build", "target"}

\* getAllJinkFiles(dir): the .jk files under dir in the order they are
\* found.  readdirSync throws for a denied directory; the catch gives the
\* results so far, which are none.
RECURSIVE getAllJinkFiles(_, _)
RECURSIVE JinkFilesFrom(_, _, _)
getAllJinkFiles(dir, denied) ==
    IF dir \in denied THEN <<>> ELSE JinkFilesFrom(dir, 1, denied)

\* The loop of getAllJinkFiles over the entries of dir from the n-th on
JinkFilesFrom(dir, n, denied) ==
    IF n > Len(Dirs[dir]) THEN <<>>
    ELSE LET file == Dirs[dir][n]
             filePath == dir \o "/" \o file
         IN  (IF filePath \in DOMAIN Dirs
              THEN IF file \notin SkippedDirs THEN getAllJinkFiles(filePath, denied)
                   ELSE <<>>
              ELSE IF EndsWith(filePath, ".jk") THEN <<filePath>> ELSE <<>>)
                 \o JinkFilesFrom(dir, n + 1, denied)

\* The inner loop of scanWorkspace over the files of a folder:
\* [threw, indexer, read], read the files indexed.  readFileSync throws for
\* a denied file and nothing catches it.
RECURSIVE ScanFiles(_, _, _)
ScanFiles(files, idx, denied) ==
    IF files = <<>> THEN [threw |-> FALSE, indexer |-> idx, read |-> <<>>]
    ELSE IF Head(files) \in denied
    THEN [threw |-> TRUE, indexer |-> idx, read |-> <<>>]
    ELSE [ScanFiles(Tail(files),
                    IndexerUpdate(idx, pathToFileURL(Head(files)), Files[Head(files)]),
                    denied)
             EXCEPT !.read = <<Head(files)>> \o @]

\* scanWorkspace(folderUris): [threw, indexer, read]
RECURSIVE scanWorkspace(_, _, _)
scanWorkspace(folderUris, idx, denied) ==
    IF folderUris = <<>> THEN [threw |-> FALSE, indexer |-> idx, read |-> <<>>]
    ELSE LET folder(scanned) ==
                 IF scanned.threw THEN scanned
                 ELSE [scanWorkspace(Tail(folderUris), scanned.indexer, denied)
                          EXCEPT !.read = scanned.read \o @]
         IN  folder(ScanFiles(getAllJinkFiles(fileURLToPath(Head(folderUris)), denied),
                              idx, denied))

(***************************************************************************)
(* The validation tabulated.  validateTextDocument reads the index through *)
(* getKnownUris, getSymbolsInUri and getImports, that is through           *)
(* symbolsByUri and importsByUri; its result is tabulated for the texts    *)
(* the client gives and the by-document maps that updates of the model's   *)
(* documents build.                                                        *)
(***************************************************************************)

\* The updates the server performs: of the open documents with the client's
\* texts, and of the files on disk with their content
ServerUpdates ==
    UNION {{<<uri, text>> : text \in OpenTexts[uri]} : uri \in Openable}
        \cup {<<pathToFileURL(file), Files[file]>> : file \in (Deniable \cap DOMAIN Files)}

RECURSIVE UpdatedBy(_, _)
UpdatedBy(idx, updates) ==
    IF updates = <<>> THEN idx
    ELSE UpdatedBy(IndexerUpdate(idx, Head(updates)[1], Head(updates)[2]),
                   Tail(updates))

\* What validateTextDocument reads of an index: the by-document maps
ByDocument(idx) == [idx EXCEPT !.symbolsByName = <<>>]

\* The by-document maps: maps of n documents are built by n updates
Snapshots ==
    {ByDocument(UpdatedBy(EmptyIndex, updates)) :
        updates \in UNION {[1..n -> ServerUpdates] : n \in 0..Cardinality(Uris)}}

ValidatedTexts == UNION {OpenTexts[uri] : uri \in Openable}

Validated ==
    [uri \in Openable |->
        [text \in OpenTexts[uri] |->
            [idx \in Snapshots |-> validateTextDocument(uri, text, idx)]]]

\* validateTextDocument after its await
Validate(uri, text, idx) == Validated[uri][text][ByDocument(idx)]

(***************************************************************************)
(* State                                                                   *)
(***************************************************************************)
VARIABLES
    indexer,        \* the Indexer: symbolsByName, symbolsByUri, importsByUri
    indexed,        \* per document, the text of the last update not removed since
    last,           \* the last call made on the Indexer used on its own
    documents,      \* the TextDocuments manager: per document, open and its text
    documentSettings,           \* the settings cache, per document
    hasConfigurationCapability, \* set by onInitialize from the client's capabilities
    waiting,        \* the validations at their await, as [uri, text]
    scan,           \* the workspace scan: its state and what the disk denied
    validated,      \* the validations the last handler completed, with results
    task,           \* the handler on the call stack and the statement it is at
    observed        \* what the last reader found in the index

vars == <<indexer, indexed, last, documents, documentSettings,
          hasConfigurationCapability, waiting, scan, validated, task, observed>>

indexerVars == <<indexer, indexed, last>>
serverVars == <<documents, documentSettings, hasConfigurationCapability,
                waiting, scan, validated>>
loopVars == <<task, observed>>

\* No text indexed
NotIndexed == [known |-> FALSE, text |-> ""]

\* No document open
NotOpen == [open |-> FALSE, text |-> ""]

\* No handler running
Idle == [pc |-> "idle"]

\* The state the three specifications start from, but for the client's
\* capabilities
Fresh ==
    /\ indexer = EmptyIndex
    /\ indexed = [u \in Uris |-> NotIndexed]
    /\ last = [type |-> "init", uri |-> "", before |-> FALSE, same |-> FALSE]
    /\ documents = [u \in Uris |-> NotOpen]
    /\ documentSettings = [u \in Uris |-> "none"]
    /\ waiting = {}
    /\ scan = [state |-> "idle", denied |-> {}]
    /\ validated = {}
    /\ task = Idle
    /\ observed = [reader |-> "none", uri |-> "", whole |-> TRUE]

Init ==
    /\ Fresh
    /\ hasConfigurationCapability = FALSE

(***************************************************************************)
(* The Indexer used on its own: any sequence of update and remove calls    *)
(***************************************************************************)

\* indexer.update(uri, text)
Update(uri, text) ==
    /\ indexer' = IndexerUpdate(indexer, uri, text)
    /\ indexed' = [indexed EXCEPT ![uri] = [known |-> TRUE, text |-> text]]
    /\ last' = [type |-> "update", uri |-> uri,
                before |-> indexed[uri].known, same |-> indexed[uri].text = text]
    /\ UNCHANGED <<serverVars, loopVars>>

\* indexer.remove(uri)
Remove(uri) ==
    /\ indexer' = IndexerRemove(indexer, uri)
    /\ indexed' = [indexed EXCEPT ![uri] = NotIndexed]
    /\ last' = [type |-> "remove", uri |-> uri,
                before |-> indexed[uri].known, same |-> FALSE]
    /\ UNCHANGED <<serverVars, loopVars>>

Next ==
    \/ \E uri \in Uris, text \in IndexTexts : Update(uri, text)
    \/ \E uri \in Uris : Remove(uri)

Spec == Init /\ [][Next]_vars

(***************************************************************************)
(* The server: one action for each handler, run to its end                 *)
(***************************************************************************)

\* onInitialize: the client's capabilities decide hasConfigurationCapability
ServerInit ==
    /\ Fresh
    /\ hasConfigurationCapability \in BOOLEAN

\* What a completed validation gave
Result(uri, text, idx) ==
    [uri |-> uri, text |-> text] @@ Validate(uri, text, idx)

\* getDocumentSettings(resource) returns a resolved promise: without the
\* configuration capability, or from the cache once the client has answered
SettingsResolved(settings, uri) ==
    ~hasConfigurationCapability \/ settings[uri] = "resolved"

\* A call of validateTextDocument for the document uri, whose text is text,
\* with the settings cache and the validations waiting as they are, the
\* index being idx: [documentSettings, waiting, validated].  On a resolved
\* promise the validation resumes before any other event is handled; else
\* it waits for the client's answer, requested if it has not been.
CallValidate(uri, text, settings, waits, idx) ==
    IF SettingsResolved(settings, uri)
    THEN [documentSettings |-> settings, waiting |-> waits,
          validated |-> {Result(uri, text, idx)}]
    ELSE [documentSettings |-> [settings EXCEPT ![uri] = "requested"],
          waiting |-> waits \cup {[uri |-> uri, text |-> text]},
          validated |-> {}]

\* The validations waiting once the open document uri has the text text:
\* those that hold the document object read its new text
Edited(uri, text) ==
    LET held == {w \in waiting : w.uri = uri /\ documents[uri].open
                                 /\ w.text = documents[uri].text}
    IN  (waiting \ held) \cup {[w EXCEPT !.text = text] : w \in held}

\* documents.onDidChangeContent, for a document opened or edited: the
\* manager has the new text, the handler updates the index and calls
\* validateTextDocument.  An edit changes the text of the document object
\* the waiting validations of an open document hold.
DidChangeContent(uri, text) ==
    /\ documents' = [documents EXCEPT ![uri] = [open |-> TRUE, text |-> text]]
    /\ indexer' = IndexerUpdate(indexer, uri, text)
    /\ indexed' = [indexed EXCEPT ![uri] = [known |-> TRUE, text |-> text]]
    /\ \E called \in {CallValidate(uri, text, documentSettings,
                                    Edited(uri, text), indexer')} :
          /\ documentSettings' = called.documentSettings
          /\ waiting' = called.waiting
          /\ validated' = called.validated
    /\ UNCHANGED <<last, hasConfigurationCapability, scan, loopVars>>

\* documents.onDidClose: the manager drops the document, the handler its
\* cached settings
DidClose(uri) ==
    /\ documents[uri].open
    /\ documents' = [documents EXCEPT ![uri] = NotOpen]
    /\ documentSettings' = [documentSettings EXCEPT ![uri] = "none"]
    /\ validated' = {}
    /\ UNCHANGED <<indexerVars, hasConfigurationCapability, waiting, scan, loopVars>>

\* connection.languages.diagnostics.on: the client pulls the diagnostics of
\* a document
DiagnosticPull(uri) ==
    /\ IF documents[uri].open
       THEN \E called \in {CallValidate(uri, documents[uri].text, documentSettings,
                                        waiting, indexer)} :
               /\ documentSettings' = called.documentSettings
               /\ waiting' = called.waiting
               /\ validated' = called.validated
       ELSE /\ validated' = {}
            /\ UNCHANGED <<documentSettings, waiting>>
    /\ UNCHANGED <<indexerVars, documents, hasConfigurationCapability, scan,
                   loopVars>>

\* The client answers the configuration request for uri: the validations
\* that await it resume, each on the text of its document and the index as
\* they are now.
ConfigurationResponse(uri) ==
    LET resumed == {w \in waiting : w.uri = uri}
    IN  /\ resumed # {}
        /\ waiting' = waiting \ resumed
        /\ documentSettings' =
              [documentSettings EXCEPT ![uri] = IF @ = "requested" THEN "resolved" ELSE @]
        /\ validated' = {Result(w.uri, w.text, indexer) : w \in resumed}
        /\ UNCHANGED <<indexerVars, documents, hasConfigurationCapability, scan,
                       loopVars>>

\* connection.onDidChangeConfiguration
DidChangeConfiguration ==
    /\ documentSettings' = IF hasConfigurationCapability
                           THEN [u \in Uris |-> "none"]
                           ELSE documentSettings
    /\ validated' = {}
    /\ UNCHANGED <<indexerVars, documents, hasConfigurationCapability, waiting, scan,
                   loopVars>>

\* connection.onDidChangeWatchedFiles: the event is logged
DidChangeWatchedFiles ==
    /\ validated' = {}
    /\ UNCHANGED <<indexerVars, documents, documentSettings,
                   hasConfigurationCapability, waiting, scan, loopVars>>

\* onInitialized: scanWorkspace over the workspace folders, once, the disk
\* denying the paths of denied
ScanWorkspace(denied) ==
    /\ scan.state = "idle"
    /\ \E scanned \in {scanWorkspace(WorkspaceFolders, indexer, denied)} :
          /\ indexer' = scanned.indexer
          /\ indexed' = [u \in Uris |->
                            IF fileURLToPath(u) \in Elems(scanned.read)
                            THEN [known |-> TRUE, text |-> Files[fileURLToPath(u)]]
                            ELSE indexed[u]]
          /\ scan' = [state |-> IF scanned.threw THEN "failed" ELSE "done",
                      denied |-> denied]
    /\ validated' = {}
    /\ UNCHANGED <<last, documents, documentSettings,
                   hasConfigurationCapability, waiting, loopVars>>

ServerNext ==
    \/ \E uri \in Openable : \E text \in OpenTexts[uri] : DidChangeContent(uri, text)
    \/ \E uri \in Openable : DidClose(uri)
    \/ \E uri \in Openable : DiagnosticPull(uri)
    \/ \E uri \in Openable : ConfigurationResponse(uri)
    \/ DidChangeConfiguration
    \/ DidChangeWatchedFiles
    \/ \E denied \in Denials : ScanWorkspace(denied)

ServerSpec == ServerInit /\ [][ServerNext]_vars

(***************************************************************************)
(* The event loop: the handlers statement by statement.  Indexer.update is *)
(* two steps, the removal of the old entries and the insertion of the new; *)
(* the scan is the updates of its files, one after the other.  The event   *)
(* loop takes the next event, or resumes a handler at its await, when no   *)
(* handler is on the call stack; validateTextDocument awaits once, before  *)
(* it reads anything, and no other handler awaits.                         *)
(***************************************************************************)

\* An event loop that takes the next event at any statement of a handler
Preemptive(t) == TRUE

\* The event loop takes the next event when the call stack is empty
CanDispatch(t) == t.pc = "idle"

\* The entries of the document u in the three maps are those of a completed
\* update with the text it is indexed with, or none
WholeDocument(idx, u, was) ==
    LET new == IF was.known THEN Parse(u, was.text)
               ELSE [symbols |-> <<>>, imports |-> <<>>]
    IN  /\ getSymbolsInUri(idx, u) = new.symbols
        /\ getImports(idx, u) = new.imports
        /\ \A n \in 1..Len(idx.symbolsByName) :
              SelectSeq(idx.symbolsByName[n].val, LAMBDA x : x.uri = u)
                 = SelectSeq(new.symbols, LAMBDA x : x.name = idx.symbolsByName[n].key)
        /\ \A n \in 1..Len(new.symbols) : MapHas(idx.symbolsByName, new.symbols[n].name)

\* The first statement of Indexer.update, this.remove(uri), in a handler
\* that goes on to insert the entries of text and then to update files
BeginUpdate(uri, text, files, scanning) ==
    /\ indexer' = IndexerRemove(indexer, uri)
    /\ task' = [pc |-> "insert", uri |-> uri, text |-> text, files |-> files,
                scanning |-> scanning]

\* documents.onDidChangeContent is dispatched and runs to the removal
ChangeRemove(uri, text) ==
    /\ CanDispatch(task)
    /\ BeginUpdate(uri, text, <<>>, FALSE)
    /\ UNCHANGED <<indexed, last, serverVars, observed>>

\* scanWorkspace is called and runs to the removal of its first file
ScanRemove ==
    LET files == getAllJinkFiles(fileURLToPath(WorkspaceFolders[1]), {})
    IN  /\ CanDispatch(task)
        /\ scan.state = "idle"
        /\ files # <<>>
        /\ BeginUpdate(pathToFileURL(Head(files)), Files[Head(files)], Tail(files), TRUE)
        /\ scan' = [scan EXCEPT !.state = "running"]
        /\ UNCHANGED <<indexed, last, documents, documentSettings,
                       hasConfigurationCapability, waiting, validated, observed>>

\* The rest of Indexer.update: the new entries are inserted.  The handler
\* returns, or the scan goes on to its next file.
Insert ==
    /\ task.pc = "insert"
    /\ indexer' = IndexerInsert(indexer, task.uri, Parse(task.uri, task.text))
    /\ indexed' = [indexed EXCEPT ![task.uri] = [known |-> TRUE, text |-> task.text]]
    /\ task' = IF task.files = <<>> THEN Idle ELSE [task EXCEPT !.pc = "next"]
    /\ scan' = IF task.scanning /\ task.files = <<>>
               THEN [scan EXCEPT !.state = "done"] ELSE scan
    /\ UNCHANGED <<last, documents, documentSettings, hasConfigurationCapability,
                   waiting, validated, observed>>

\* The scan's update of its next file runs to the removal
NextRemove ==
    /\ task.pc = "next"
    /\ BeginUpdate(pathToFileURL(Head(task.files)), Files[Head(task.files)],
                   Tail(task.files), TRUE)
    /\ UNCHANGED <<indexed, last, serverVars, observed>>

\* The handlers that read the index
Readers == {"validate", "diagnostics", "completion", "definition"}

\* A reader is dispatched, or validateTextDocument resumes after its await,
\* and reads the index
Read(reader) ==
    /\ CanDispatch(task)
    /\ observed' = [reader |-> reader, uri |-> "",
                    whole |-> \A u \in Uris : WholeDocument(indexer, u, indexed[u])]
    /\ UNCHANGED <<indexerVars, serverVars, task>>

LoopNext ==
    \/ \E uri \in Openable : \E text \in OpenTexts[uri] : ChangeRemove(uri, text)
    \/ ScanRemove
    \/ Insert
    \/ NextRemove
    \/ \E reader \in Readers : Read(reader)

LoopSpec == Init /\ [][LoopNext]_vars

(***************************************************************************)
(* Properties of the Indexer                                               *)
(***************************************************************************)

\* The symbols of list owned by uri, in order
OwnedBy(list, uri) == SelectSeq(list, LAMBDA x : x.uri = uri)

\* The symbols of list not owned by uri, in order
NotOwnedBy(list, uri) == SelectSeq(list, LAMBDA x : x.uri # uri)

\* The number of times x is on list
Count(list, x) == Cardinality({k \in 1..Len(list) : list[k] = x})

\* The symbols of name owned by uri on the by-name map, in order
NamedIn(idx, name, uri) == OwnedBy(getDefinition(idx, name), uri)

\* The symbols of name on list, in order
Named(list, name) == SelectSeq(list, LAMBDA x : x.name = name)

\* Every name that is a key of the by-name map or the name of a symbol of a
\* document
AllNames(idx) ==
    Elems(MapKeys(idx.symbolsByName))
        \cup {x.name : x \in Elems(Flatten(MapValues(idx.symbolsByUri)))}

\* The symbols of every known document, document after document
AllInUris(idx) == Flatten(MapValues(idx.symbolsByUri))

\* C1: after any sequence of update and remove calls the two maps agree:
\* a symbol listed under name n has name n and is in the entry of its owning
\* document, a symbol of a document's entry is listed under its name, and
\* getAllSymbols holds each symbol as many times as the entries of the known
\* documents together.
MapsAgree ==
    /\ \A e \in Elems(indexer.symbolsByName) : \A x \in Elems(e.val) :
          /\ x.name = e.key
          /\ MapHas(indexer.symbolsByUri, x.uri)
          /\ x \in Elems(getSymbolsInUri(indexer, x.uri))
    /\ \A e \in Elems(indexer.symbolsByUri) : \A x \in Elems(e.val) :
          /\ MapHas(indexer.symbolsByName, x.name)
          /\ x \in Elems(getDefinition(indexer, x.name))
    /\ \A x \in Elems(getAllSymbols(indexer)) \cup Elems(AllInUris(indexer)) :
          Count(getAllSymbols(indexer), x) = Count(AllInUris(indexer), x)

\* Two documents are indexed with a symbol of the same name each, after the
\* removal of a document that was indexed
MapsAgreeWitness ==
    /\ Len(getKnownUris(indexer)) = 2
    /\ Len(getDefinition(indexer, "add")) >= 2
    /\ \E x, y \in Elems(getDefinition(indexer, "add")) : x.uri # y.uri
    /\ last.type = "remove" /\ last.before

\* C2: an update of a document with the text it is indexed with leaves its
\* symbols and imports as they were, and the by-name map lists each symbol
\* of the document as many times as the document's entry does.
UpdateIdempotent ==
    [][(last'.type = "update" /\ last'.before /\ last'.same) =>
          LET d == last'.uri
          IN  /\ getSymbolsInUri(indexer', d) = getSymbolsInUri(indexer, d)
              /\ getImports(indexer', d) = getImports(indexer, d)
              /\ \A n \in AllNames(indexer') :
                    NamedIn(indexer', n, d) = Named(getSymbolsInUri(indexer', d), n)
              /\ \A n \in AllNames(indexer') \cup AllNames(indexer) :
                    Len(getDefinition(indexer', n)) = Len(getDefinition(indexer, n))]_vars

\* A document with symbols and imports was updated with the text it was
\* indexed with, another document sharing a name with it
UpdateIdempotentWitness ==
    /\ last.type = "update" /\ last.before /\ last.same
    /\ Len(getSymbolsInUri(indexer, last.uri)) > 0
    /\ \E x \in Elems(getSymbolsInUri(indexer, last.uri)) :
          Len(getDefinition(indexer, x.name)) >= 2
    /\ \E u \in Uris : indexed[u].known /\ Len(getImports(indexer, u)) > 0

\* C3: the removal of an indexed document leaves no symbol and no import
\* entry for it and no symbol owned by it on the by-name map, and leaves
\* the symbols, the imports and the by-name symbols of every other document
\* as they were.
RemoveExact ==
    [][(last'.type = "remove" /\ last'.before) =>
          LET d == last'.uri
          IN  /\ ~MapHas(indexer'.symbolsByUri, d)
              /\ ~MapHas(indexer'.importsByUri, d)
              /\ getSymbolsInUri(indexer', d) = <<>>
              /\ getImports(indexer', d) = <<>>
              /\ \A x \in Elems(getAllSymbols(indexer')) : x.uri # d
              /\ \A u \in Uris \ {d} :
                    /\ MapHas(indexer'.symbolsByUri, u) = MapHas(indexer.symbolsByUri, u)
                    /\ MapHas(indexer'.importsByUri, u) = MapHas(indexer.importsByUri, u)
                    /\ getSymbolsInUri(indexer', u) = getSymbolsInUri(indexer, u)
                    /\ getImports(indexer', u) = getImports(indexer, u)
              /\ \A n \in AllNames(indexer) :
                    getDefinition(indexer', n) = NotOwnedBy(getDefinition(indexer, n), d)
              /\ \A e \in Elems(indexer'.symbolsByName) : Len(e.val) > 0]_vars

\* A document was removed that shared the name of a symbol with a document
\* still indexed
RemoveExactWitness ==
    /\ last.type = "remove" /\ last.before
    /\ ~indexed[UriM].known /\ last.uri = UriM
    /\ \E u \in Uris : indexed[u].known /\ indexed[u].text = TextSelective
    /\ Len(getDefinition(indexer, "add")) >= 1

\* What Indexer.update extracts from the text a document is indexed with
ExtractedFor(u) ==
    IF indexed[u].known THEN Extracted[u][indexed[u].text]
    ELSE [symbols |-> <<>>, imports |-> <<>>]

\* C4: the symbols and imports recorded for a document in both maps are
\* exactly those extracted from the text of its last update, whatever it was
\* indexed with before, and every symbol is owned by the document it was
\* extracted from.
ReindexReplaces ==
    \A u \in Uris :
        /\ getSymbolsInUri(indexer, u) = ExtractedFor(u).symbols
        /\ getImports(indexer, u) = ExtractedFor(u).imports
        /\ \A n \in AllNames(indexer) :
              NamedIn(indexer, n, u) = Named(ExtractedFor(u).symbols, n)
        /\ OwnedBy(getAllSymbols(indexer), u) # <<>> => indexed[u].known
        /\ \A x \in Elems(getSymbolsInUri(indexer, u)) : x.uri = u
        /\ Elems(getKnownUris(indexer)) = {v \in Uris : indexed[v].known}

\* A document indexed with one text was updated with another that has not
\* the symbol Point of the first
ReindexReplacesWitness ==
    /\ last.type = "update" /\ last.before /\ ~last.same
    /\ indexed[last.uri].text = TextAdd
    /\ getDefinition(indexer, "Point") = <<>>
    /\ Len(getSymbolsInUri(indexer, last.uri)) = 2

(***************************************************************************)
(* Properties of the server                                                *)
(***************************************************************************)

\* The document u is closed by the step
Closes(u) == documents[u].open /\ ~documents'[u].open

\* C5: after the close of a document the index holds no symbol and no
\* import entry for it and it is not among the known documents.
CloseDeletesEntries ==
    [][\A u \in Uris :
          Closes(u) =>
             /\ ~MapHas(indexer'.symbolsByUri, u)
             /\ ~MapHas(indexer'.importsByUri, u)
             /\ u \notin Elems(getKnownUris(indexer'))
             /\ \A x \in Elems(getAllSymbols(indexer')) : x.uri # u]_vars

\* C6: no reader finds a document between the removal of its old entries
\* and the insertion of its new ones: what a reader finds for each document
\* is what a completed update left.
ReadersSeeWholeDocuments == observed.reader # "none" => observed.whole

\* A reader ran after the update of a document that had entries: the module
\* indexed from disk by the scan and edited since
ReadersSeeWholeDocumentsWitness ==
    /\ observed.reader = "validate"
    /\ scan.state = "done"
    /\ indexed[UriM].known /\ indexed[UriM].text = TextHid
    /\ task.pc = "idle"

\* The source files of the workspace: the .jk files outside the directories
\* the scan skips
SourceFiles == {"/w/src/lib/m.jk", "/w/src/m.jk"}

\* The disk lets file be found and read
Readable(file, denied) ==
    /\ file \notin denied
    /\ \A dir \in denied : ~StartsAt(file, dir \o "/", 1)

\* C7: the scan swallows the failure to read a file, and every readable
\* source file is indexed once the scan has run.
ScanSwallowsReadFailure ==
    scan.state # "idle" =>
        /\ scan.state = "done"
        /\ \A file \in SourceFiles :
              Readable(file, scan.denied) =>
                  MapHas(indexer.symbolsByUri, pathToFileURL(file))

\* C8: every validation completes with its list of diagnostics.
ValidationCompletes == \A r \in validated : ~r.threw

\* The lines of a text of the model
TextLines(text) == Split(text, "\n")

\* The first offset of s from k on that holds no blank, or the length of s
SkipBlanks(s, k) ==
    LET stops == {j \in k..Len(s) : j = Len(s) \/ Ch(s, j + 1) \notin WhiteSpace}
    IN  CHOOSE j \in stops : \A i \in stops : j <= i

\* The offset of the module path in the first line of an import statement:
\* after the word import, and the word from of a selective import
ModulePathStart(line) ==
    LET afterImport == SkipBlanks(line, SkipBlanks(line, 0) + Len("import"))
        afterFrom == afterImport + Len("from")
    IN  IF StartsAt(line, "from", afterImport + 1) /\ afterFrom < Len(line)
           /\ Ch(line, afterFrom + 1) \in WhiteSpace
        THEN SkipBlanks(line, afterFrom)
        ELSE afterImport

\* The import errors of a validation on the lines of the import statement imp
ImportErrors(r, imp) ==
    SelectSeq(r.diagnostics,
              LAMBDA d : /\ d.range.start.line >= imp.range.start.line
                         /\ d.range.start.line <= imp.range.end.line
                         /\ \/ StartsAt(d.message, "Module '", 1)
                            \/ StartsAt(d.message, "Symbol '", 1))

\* C9: an import statement whose module path resolves to no known document
\* gets one import error, the module not found error on the span of the
\* module path.
UnresolvedModuleReported ==
    \A r \in validated :
        ~r.threw =>
            \A imp \in Elems(Parse(r.uri, r.text).imports) :
                ~FindModule(indexer, imp.modulePath).found =>
                    LET l == imp.range.start.line
                        start == ModulePathStart(TextLines(r.text)[l + 1])
                        errors == ImportErrors(r, imp)
                    IN  /\ Len(errors) = 1
                        /\ errors[1].message = ModuleNotFound(imp.modulePath)
                        /\ errors[1].range
                              = Range(l, start, l, start + Len(imp.modulePath))

\* C10: each name of a selective import whose module resolves gets one
\* outcome: the not found error when the module has no symbol of the name,
\* the not public error when it has a private one, no import error when it
\* has a public one.
SelectiveNamesJudged ==
    \A r \in validated :
        ~r.threw =>
            \A imp \in Elems(Parse(r.uri, r.text).imports) :
                (imp.names # <<>> /\ FindModule(indexer, imp.modulePath).found) =>
                    LET module == getSymbolsInUri(
                                      indexer, FindModule(indexer, imp.modulePath).uri)
                        errors == ImportErrors(r, imp)
                        notFound(name) ==
                            Len(SelectSeq(errors, LAMBDA d :
                                   d.message = SymbolNotFound(name, imp.modulePath)))
                        notPublic(name) ==
                            Len(SelectSeq(errors, LAMBDA d :
                                   d.message = SymbolNotPublic(name, imp.modulePath)))
                    IN  \A k \in 1..Len(imp.names) :
                           LET name == imp.names[k].name
                               public == \E x \in Elems(module) :
                                            x.name = name /\ x.isPublic
                               private == \E x \in Elems(module) :
                                             x.name = name /\ ~x.isPublic
                           IN  IF public THEN notFound(name) = 0 /\ notPublic(name) = 0
                               ELSE IF private
                               THEN notFound(name) = 0 /\ notPublic(name) = 1
                               ELSE notFound(name) = 1 /\ notPublic(name) = 0

(***************************************************************************)
(* validateTextDocument on its own: the documents are open and indexed,    *)
(* the client lacks the configuration capability, and a document is        *)
(* validated on its text and the index.                                    *)
(***************************************************************************)

\* The texts the modules are opened with in this specification
ModuleTexts == (UriM :> {TextAdd, TextHid, TextPoint}) @@ (UriLibM :> {TextHid})

\* The change events that opened the documents: m or not, lib/m or not,
\* then the importing document
Openings ==
    {m \o lib \o <<<<UriApp, text>>>> :
        m \in {<<>>} \cup {<<<<UriM, x>>>> : x \in ModuleTexts[UriM]},
        lib \in {<<>>} \cup {<<<<UriLibM, x>>>> : x \in ModuleTexts[UriLibM]},
        text \in AnalysisTexts}

\* The state after the change events of opened
Opened(opened) ==
    /\ indexer = UpdatedBy(EmptyIndex, opened)
    /\ indexed = [u \in Uris |->
                     IF \E n \in 1..Len(opened) : opened[n][1] = u
                     THEN [known |-> TRUE,
                           text |-> opened[CHOOSE n \in 1..Len(opened) :
                                              opened[n][1] = u][2]]
                     ELSE NotIndexed]
    /\ documents = [u \in Uris |->
                       IF \E n \in 1..Len(opened) : opened[n][1] = u
                       THEN [open |-> TRUE,
                             text |-> opened[CHOOSE n \in 1..Len(opened) :
                                                opened[n][1] = u][2]]
                       ELSE NotOpen]

AnalysisInit ==
    /\ \E opened \in Openings : Opened(opened)
    /\ last = [type |-> "init", uri |-> "", before |-> FALSE, same |-> FALSE]
    /\ documentSettings = [u \in Uris |-> "none"]
    /\ hasConfigurationCapability = FALSE
    /\ waiting = {}
    /\ scan = [state |-> "idle", denied |-> {}]
    /\ validated = {}
    /\ task = Idle
    /\ observed = [reader |-> "none", uri |-> "", whole |-> TRUE]

\* validateTextDocument for the open document uri, from its await to its
\* return
Analyse(uri) ==
    /\ documents[uri].open
    /\ validated' = {[uri |-> uri, text |-> documents[uri].text]
                        @@ Analysis(uri, documents[uri].text, indexer)}
    /\ UNCHANGED <<indexerVars, documents, documentSettings,
                   hasConfigurationCapability, waiting, scan, loopVars>>

AnalysisNext == \E uri \in Uris : Analyse(uri)

AnalysisSpec == AnalysisInit /\ [][AnalysisNext]_vars

\* importedNames: the names the import validation of r's document records
Recorded(r) ==
    CheckImports(SplitLines(StripComments(r.text)), 0, indexer,
                 [diagnostics |-> <<>>, importedNames |-> <<>>]).importedNames

\* The number of whole-word occurrences of name in s
WholeWords(name, s) ==
    Cardinality({p \in 1..Len(s) :
                    /\ StartsAt(s, name, p)
                    /\ IsWordAt(s, p - 1) # IsWordAt(s, p)
                    /\ IsWordAt(s, p + Len(name) - 1) # IsWordAt(s, p + Len(name))})

\* The validation warns that the recorded name imp is unused
WarnedUnused(r, imp) ==
    \E d \in Elems(r.diagnostics) :
        /\ d.severity = "Warning"
        /\ d.message = ImportUnused(imp.name)
        /\ d.range = imp.range

\* C11: a validation warns that a name recorded by its import validation is
\* unused exactly when the name has one whole-word occurrence in the
\* comment-free text.
UnusedWarnedIffOnce ==
    \A r \in validated :
        \A imp \in Elems(Recorded(r)) :
            WarnedUnused(r, imp) <=> WholeWords(imp.name, StripComments(r.text)) = 1

\* The validation r reports the identifier of the usage u as undefined, at
\* its place
Reported(r, u) ==
    \E d \in Elems(r.diagnostics) :
        /\ d.message = UndefinedSymbol(u.name)
        /\ d.range.start = PositionAt(r.text, u.index)

\* A wildcard import of the document resolves to a module that has a public
\* Symbol called name
Exposed(uri, name) ==
    \E imp \in Elems(getImports(indexer, uri)) :
        /\ imp.isWildcard
        /\ FindModule(indexer, imp.modulePath).found
        /\ \E s \in Elems(getSymbolsInUri(indexer, FindModule(indexer, imp.modulePath).uri)) :
              s.name = name /\ s.isPublic

\* A Symbol called name, private, of a module a wildcard import of the
\* document resolves to
PrivateOf(uri, name) ==
    \E imp \in Elems(getImports(indexer, uri)) :
        /\ imp.isWildcard
        /\ FindModule(indexer, imp.modulePath).found
        /\ \E s \in Elems(getSymbolsInUri(indexer, FindModule(indexer, imp.modulePath).uri)) :
              s.name = name /\ ~s.isPublic

\* C12: a usage that no scope of the stack has is left unreported only if a
\* wildcard import of the document resolves to a module with a public Symbol
\* of that name; a private Symbol of such a module does not resolve it.
WildcardExposesPublicOnly ==
    \A r \in validated : \A u \in Elems(r.usages) :
        /\ ~u.scoped /\ ~Reported(r, u) => Exposed(r.uri, u.name)
        /\ ~u.scoped /\ PrivateOf(r.uri, u.name) /\ ~Exposed(r.uri, u.name)
              => Reported(r, u)

\* A validation reports a private Symbol of the wildcard-imported module and
\* leaves a public one unreported
WildcardExposesPublicOnlyWitness ==
    \E r \in validated : \E u, v \in Elems(r.usages) :
        /\ ~u.scoped /\ ~Reported(r, u) /\ Exposed(r.uri, u.name)
        /\ ~v.scoped /\ Reported(r, v) /\ PrivateOf(r.uri, v.name)
        /\ ~Exposed(r.uri, v.name)

\* The 0-based offset index of s follows a '.' that is not the end of the
\* rest marker '...'
AfterDot(s, index) ==
    /\ index > 0
    /\ CharAt(s, index - 1) = "."
    /\ ~(index >= 3 /\ CharAt(s, index - 2) = "." /\ CharAt(s, index - 3) = ".")

\* The offsets of the comment-free text of the validation r where an
\* identifier follows such a '.'
Members(r) ==
    {index \in 0..Len(r.text) :
        /\ AfterDot(StripComments(r.text), index)
        /\ CharAt(StripComments(r.text), index) \in IdStart}

\* C13: an identifier that follows a '.' (not the rest marker) is not
\* reported as undefined and is added to no scope and to no argument list.
MemberNeverChecked ==
    \A r \in validated : \A index \in Members(r) :
        /\ \A d \in Elems(r.diagnostics) :
              StartsAt(d.message, "Undefined symbol '", 1)
                  => d.range.start # PositionAt(r.text, index)
        /\ \A e \in Elems(r.declared) \cup Elems(r.usages) : e.index # index

\* A validation that reports an undefined symbol passes over a member that
\* no document declares
MemberNeverCheckedWitness ==
    \E r \in validated :
        /\ \E index \in Members(r) :
              /\ CharAt(r.text, index) = "x"
              /\ CharAt(r.text, index + 1) \notin IdChar
              /\ \A s \in Elems(getAllSymbols(indexer)) : s.name # "x"
        /\ \E d \in Elems(r.diagnostics) : d.message = UndefinedSymbol("q")

\* A parameter `T p`
TypedName == Cat(<<Star(Ws), Ident, Plus(Ws), Ident, Star(Ws)>>)

\* A function declaration `[pub] fun f(T1 p1, ..., Tn pn) {`
FunctionHead ==
    Cat(<<Bol, PubGroup, Lit("fun"), Plus(Ws), Grp(2, Ident), Star(Ws), Lit("("),
          Grp(3, Opt(Cat(<<TypedName, Star(Cat(<<Lit(","), TypedName>>))>>))),
          Lit(")"), Star(Ws), Lit("{")>>)

\* The lines (0-based) of text that hold a function declaration
FunctionLines(text) ==
    {n \in 0..(Len(SplitLines(text)) - 1) :
        Exec(FunctionHead, Trim(LineAt(SplitLines(text), n))).ok}

\* The parameters `T1 p1, ..., Tn pn` written between the parentheses
Written(list) ==
    IF Trim(list) = "" THEN <<>>
    ELSE [k \in 1..Len(Split(list, ",")) |->
             [name |-> SplitRe(spacesPattern, Trim(Split(list, ",")[k]))[2],
              type |-> SplitRe(spacesPattern, Trim(Split(list, ",")[k]))[1]]]

\* The function declared on line n of text: [name, parameters, isPublic]
FunctionAt(text, n) ==
    LET head(line, m) ==
            [name |-> Cap(m, line, 2), parameters |-> Written(Cap(m, line, 3)),
             isPublic |-> Has(m, 1)]
    IN  head(Trim(LineAt(SplitLines(text), n)),
             Exec(FunctionHead, Trim(LineAt(SplitLines(text), n))))

\* The index has, for each function declared in an open document, one
\* Function Symbol of its name, with its parameters and its visibility
FunctionsRecorded ==
    \A uri \in Uris : documents[uri].open =>
        \A n \in FunctionLines(documents[uri].text) :
            LET f == FunctionAt(documents[uri].text, n)
                found == {k \in 1..Len(getSymbolsInUri(indexer, uri)) :
                             /\ getSymbolsInUri(indexer, uri)[k].name = f.name
                             /\ getSymbolsInUri(indexer, uri)[k].kind = "Function"}
            IN  /\ Cardinality(found) = 1
                /\ \A k \in found :
                      /\ getSymbolsInUri(indexer, uri)[k].parameters = f.parameters
                      /\ getSymbolsInUri(indexer, uri)[k].isPublic = f.isPublic

\* The offset of the first character of line n of text
LineStart(text, n) ==
    CHOOSE o \in 0..Len(text) : PositionAt(text, o) = [line |-> n, character |-> 0]

\* The offsets of the body of the function declared on line n: between the
\* first '{' of the declaration and the first '}' after it
BodyOf(text, n) ==
    LET open == IndexOfFrom(text, "{", LineStart(text, n))
        close == IndexOfFrom(text, "}", open)
    IN  {o \in 0..Len(text) : open < o /\ o < close}

\* No use of a parameter in the body of its function is reported
ParametersInScope ==
    \A r \in validated : \A n \in FunctionLines(r.text) :
        \A u \in Elems(r.usages) :
            /\ u.index \in BodyOf(r.text, n)
            /\ \E p \in Elems(FunctionAt(r.text, n).parameters) : p.name = u.name
            => ~Reported(r, u)

\* No keyword is declared or checked as an identifier
KeywordsNoIdentifier ==
    \A r \in validated :
        \A e \in Elems(r.usages) \cup Elems(r.declared) : e.name \notin keywords

\* C14: a function declaration gives one Function Symbol with its ordered
\* parameters, public exactly when pub is written; the uses of the parameters
\* in the body are not reported as undefined; a keyword such as return is
\* never an identifier usage.
FunctionDeclared == FunctionsRecorded /\ ParametersInScope /\ KeywordsNoIdentifier

\* The statements of text: the pieces of its lines between ';', trimmed
Statements(text) ==
    UNION {{Trim(piece) : piece \in Elems(Split(line, ";"))} :
              line \in Elems(SplitLines(text))}

\* The statement declares name: words, then the name, then '=', '(' or the
\* end of the statement
Declares(statement, name) ==
    Exec(Cat(<<Bol, Plus(Cat(<<Ident, Plus(Ws)>>)), Lit(name), Star(Ws),
               Alt(Cls({"=", "("}), Eol)>>), statement).ok

\* The statement begins with the word pub
PubPrefixed(statement) == Exec(Cat(<<Bol, Lit("pub"), Ws>>), statement).ok

\* The statement is `let name = ...`
LetOf(statement, name) ==
    Exec(Cat(<<Bol, Lit("let"), Plus(Ws), Lit(name), Star(Ws), Lit("=")>>), statement).ok

\* C15: a Symbol of the index is public exactly when a declaration of its
\* name in the document begins with pub, whatever the form of the
\* declaration; `let x = ...` gives one Variable Symbol x, private.
PublicIffPub ==
    \A uri \in Uris : documents[uri].open =>
        \A s \in Elems(getSymbolsInUri(indexer, uri)) :
            /\ s.isPublic <=>
                  \E statement \in Statements(documents[uri].text) :
                      Declares(statement, s.name) /\ PubPrefixed(statement)
            /\ (\E statement \in Statements(documents[uri].text) :
                    LetOf(statement, s.name))
                  => /\ s.kind = "Variable" /\ ~s.isPublic
                     /\ \A k, n \in 1..Len(getSymbolsInUri(indexer, uri)) :
                           /\ getSymbolsInUri(indexer, uri)[k].name = s.name
                           /\ getSymbolsInUri(indexer, uri)[n].name = s.name
                           => k = n

\* The range r lies on one line of text and covers there the word name, as
\* a whole word, in a statement that declares it
CoversName(text, r, name) ==
    /\ r.start.line = r.end.line
    /\ r.start.line < Len(SplitLines(text))
    /\ LET line == LineAt(SplitLines(text), r.start.line)
       IN  /\ r.end.character <= Len(line)
           /\ Substring2(line, r.start.character, r.end.character) = name
           /\ ~IsWordAt(line, r.start.character)
           /\ ~IsWordAt(line, r.end.character + 1)
           /\ \E piece \in Elems(Split(line, ";")) : Declares(Trim(piece), name)

\* C16: the range of every Symbol of the index lies on the line that
\* declares its name and covers exactly the name there.
RangeIsNameToken ==
    \A uri \in Uris : documents[uri].open =>
        \A s \in Elems(getSymbolsInUri(indexer, uri)) :
            CoversName(documents[uri].text, s.range, s.name)

(***************************************************************************)
(* Completion and definition requests on their own: the documents are      *)
(* indexed and open, and the client asks at the positions of the           *)
(* importing document.                                                     *)
(***************************************************************************)

\* The change events before the requests: the modules, a document outside
\* src, then the importing document
Requested ==
    {m \o lib \o out \o <<<<UriApp, text>>>> :
        m \in {<<>>} \cup {<<<<UriM, x>>>> : x \in {TextAdd, TextHid}},
        lib \in {<<>>, <<<<UriLibM, TextHid>>>>},
        out \in {<<>>, <<<<UriOut, TextAdd>>>>},
        text \in RequestTexts}

NoResponse == [reader |-> "none", uri |-> "", whole |-> TRUE]

RequestInit ==
    /\ \E opened \in Requested : Opened(opened)
    /\ last = [type |-> "init", uri |-> "", before |-> FALSE, same |-> FALSE]
    /\ documentSettings = [u \in Uris |-> "none"]
    /\ hasConfigurationCapability = FALSE
    /\ waiting = {}
    /\ scan = [state |-> "idle", denied |-> {}]
    /\ validated = {}
    /\ task = Idle
    /\ observed = NoResponse

\* The lines of the open document uri, and the characters of its line
LinesOf(uri) == 0..(Len(SplitLines(documents[uri].text)) - 1)
CharactersOf(uri, line) == 0..Len(LineAt(SplitLines(documents[uri].text), line))

\* A completion handler that re-indexes the document before it answers
CompletionReindexing(uri, line) ==
    /\ observed = NoResponse
    /\ documents[uri].open
    /\ line \in LinesOf(uri)
    /\ indexer' = IndexerUpdate(indexer, uri, documents[uri].text)
    /\ observed' = [reader |-> "completion", uri |-> uri, line |-> line,
                    items |-> onCompletion(uri, documents[uri].text, line, indexer')]
    /\ UNCHANGED <<indexed, last, serverVars, task>>

\* connection.onCompletion answers a request at a line of an open document
Completion(uri, line) ==
    /\ observed = NoResponse
    /\ documents[uri].open
    /\ line \in LinesOf(uri)
    /\ observed' = [reader |-> "completion", uri |-> uri, line |-> line,
                    items |-> onCompletion(uri, documents[uri].text, line, indexer)]
    /\ UNCHANGED <<indexerVars, serverVars, task>>

\* connection.onDefinition answers a request at a position of an open
\* document
Definition(uri, line, character) ==
    /\ observed = NoResponse
    /\ documents[uri].open
    /\ line \in LinesOf(uri)
    /\ character \in CharactersOf(uri, line)
    /\ observed' = [reader |-> "definition", uri |-> uri, line |-> line,
                    character |-> character,
                    locations |-> onDefinition(uri, documents[uri].text, line,
                                               character, indexer)]
    /\ UNCHANGED <<indexerVars, serverVars, task>>

\* The connection sends the response of the handler before it handles the
\* next request
Respond ==
    /\ observed # NoResponse
    /\ observed' = NoResponse
    /\ UNCHANGED <<indexerVars, serverVars, task>>

RequestNext ==
    \/ Respond
    \/ \E uri \in {UriApp} : \E line \in LinesOf(uri) : Completion(uri, line)
    \/ \E uri \in {UriApp} : \E line \in LinesOf(uri) :
          \E character \in CharactersOf(uri, line) : Definition(uri, line, character)

RequestSpec == RequestInit /\ [][RequestNext]_vars

\* The line of the last request and the word at its position
RequestLine == LineAt(SplitLines(documents[observed.uri].text), observed.line)
RequestWord == getWordAtPosition(RequestLine, observed.character)

\* The last request asked for the definition of a word of a line that is no
\* import, of which the document has no Symbol
BareWord ==
    /\ observed.reader = "definition"
    /\ ~StartsAt(RequestLine, "import", 1)
    /\ RequestWord.found
    /\ \A s \in Elems(getSymbolsInUri(indexer, observed.uri)) : s.name # RequestWord.word

\* The Symbols the selective imports of the document bind word to: for an
\* import that lists word, or lists it as an alias, the Symbol of the
\* original name in the module of the import
NamedTargets(uri, word) ==
    {FindSymbol(getSymbolsInUri(indexer, FindModule(indexer, imp.modulePath).uri),
                n.name).sym :
        <<imp, n>> \in
            {<<i, e>> \in UNION {{<<i, e>> : e \in Elems(i.names)} :
                                    i \in Elems(getImports(indexer, uri))} :
                /\ AliasOrOwnName(e) = word
                /\ FindModule(indexer, i.modulePath).found
                /\ FindSymbol(getSymbolsInUri(indexer,
                                              FindModule(indexer, i.modulePath).uri),
                              e.name).found}}

\* C17: the definition of a bare word that a selective import binds to an
\* existing Symbol is that Symbol, whatever the order of the imports and
\* whatever the wildcard-imported modules declare.
NamedBeforeWildcard ==
    BareWord /\ NamedTargets(observed.uri, RequestWord.word) # {}
        => \E s \in NamedTargets(observed.uri, RequestWord.word) :
              observed.locations = <<Location(s.uri, s.range)>>

\* The imports of the document of the last request that begin on its line,
\* resolve to a known document, and whose module path the position lies in
PathImports ==
    {imp \in Elems(getImports(indexer, observed.uri)) :
        /\ imp.range.start.line = observed.line
        /\ FindModule(indexer, imp.modulePath).found
        /\ observed.character >= ModulePathStart(RequestLine)
        /\ observed.character <= ModulePathStart(RequestLine) + Len(imp.modulePath)}

\* No rule applies to the position of the last request: it lies in no word,
\* or in a word outside an import that names no Symbol of the index and no
\* import of the document
NoRule ==
    \/ ~RequestWord.found
    \/ /\ ~StartsAt(RequestLine, "import", 1)
       /\ \A s \in Elems(getAllSymbols(indexer)) : s.name # RequestWord.word
       /\ \A imp \in Elems(getImports(indexer, observed.uri)) :
             /\ AliasOf(imp) # RequestWord.word
             /\ LastSegment(imp.modulePath) # RequestWord.word
             /\ \A n \in Elems(imp.names) : AliasOrOwnName(n) # RequestWord.word

\* C18: a definition request gets at most one location; in the module path
\* of an import that resolves it gets the start of the module's document;
\* where no rule applies it gets none.
DefinitionLocation ==
    observed.reader = "definition" =>
        /\ Len(observed.locations) <= 1
        /\ \A imp \in PathImports :
              observed.locations =
                  <<Location(FindModule(indexer, imp.modulePath).uri, Range(0, 0, 0, 0))>>
        /\ NoRule => observed.locations = <<>>

\* The items of the last response that carry an edit
Edits == {i \in Elems(observed.items) : "additionalTextEdits" \in DOMAIN i}

\* The item inserts a selective import of name as the first line
InsertsImport(i, name) ==
    /\ i.label = name
    /\ Len(i.additionalTextEdits) = 1
    /\ i.additionalTextEdits[1].range = Range(0, 0, 0, 0)
    /\ StartsAt(i.additionalTextEdits[1].newText, "import from ", 1)
    /\ EndsWith(i.additionalTextEdits[1].newText, " { " \o name \o " };\n")

\* A selective import of the document binds name
BoundByImport(uri, name) ==
    \E imp \in Elems(getImports(indexer, uri)) :
        \E n \in Elems(imp.names) : AliasOrOwnName(n) = name

\* A wildcard import of the document covers the document owner
CoveredByWildcard(uri, owner) ==
    \E imp \in Elems(getImports(indexer, uri)) :
        imp.isWildcard /\ EndsWith(owner, ExpectedSuffix(imp.modulePath))

\* The names proposed from the declarations of the document itself
ProposedLocally ==
    Labels(getAutocompleteSuggestions(documents[observed.uri].text, observed.line))

\* C19: a completion response has, for every public Symbol of another
\* document whose name no selective import binds, whose document no wildcard
\* import covers and whose name is not proposed already, an item of that
\* name that inserts a selective import at line 0, character 0.
AutoImportOffered ==
    observed.reader = "completion" =>
        \A s \in Elems(getAllSymbols(indexer)) :
            /\ s.uri # observed.uri /\ s.isPublic
            /\ ~BoundByImport(observed.uri, s.name)
            /\ ~CoveredByWildcard(observed.uri, s.uri)
            /\ s.name \notin ProposedLocally
            => \E i \in Edits : InsertsImport(i, s.name)

\* C20: every item of a completion response that carries an auto-import
\* edit is for a public Symbol of a document other than the current one:
\* none is for a private Symbol, none for a Symbol of the current document.
AutoImportPublicForeign ==
    observed.reader = "completion" =>
        \A i \in Edits :
            /\ \E s \in Elems(getAllSymbols(indexer)) :
                  /\ s.name = i.label
                  /\ i.detail = "Auto-import from " \o ModulePath(s.uri)
                  /\ s.isPublic /\ s.uri # observed.uri
            /\ \A s \in Elems(getSymbolsInUri(indexer, observed.uri)) :
                  i.detail # "Auto-import from " \o ModulePath(s.uri)

\* A response offers an import while the current document has a public
\* Symbol and another document a private one, neither proposed
AutoImportPublicForeignWitness ==
    /\ observed.reader = "completion"
    /\ Edits # {}
    /\ \E s \in Elems(getSymbolsInUri(indexer, observed.uri)) :
          s.isPublic /\ s.name \notin Labels(observed.items)
    /\ \E s \in Elems(getAllSymbols(indexer)) :
          /\ s.uri # observed.uri /\ ~s.isPublic
          /\ s.name \notin Labels(observed.items)

\* C21: no two items of a completion response carry the same label: of the
\* proposals of one name only the first is in the response.
CompletionLabelsDistinct ==
    observed.reader = "completion" =>
        \A i, j \in 1..Len(observed.items) :
            i # j => observed.items[i].label # observed.items[j].label

\* The name a diagnostic message quotes
Quoted(message) == Split(message, "'")[2]

\* What the range of a diagnostic designates in text: the characters of its
\* line from its start to its end, nothing when it spans lines or lies
\* outside the text
Designated(text, range) ==
    IF /\ range.start.line = range["end"].line
       /\ range.start.line < Len(SplitLines(text))
       /\ range.start.character <= range["end"].character
       /\ range["end"].character <= Len(LineAt(SplitLines(text), range.start.line))
    THEN Substring2(LineAt(SplitLines(text), range.start.line),
                    range.start.character, range["end"].character)
    ELSE ""

\* The diagnostics that report a module, an import or a symbol by its name
ReportsByName(d) ==
    \/ StartsAt(d.message, "Module '", 1) /\ EndsWith(d.message, "' not found.")
    \/ StartsAt(d.message, "Import '", 1) /\ EndsWith(d.message, "' is unused.")
    \/ StartsAt(d.message, "Undefined symbol '", 1)

\* C22: the text without its comments has the length of the text, the same
\* character at every position outside the comments, line breaks included,
\* and so the range of every diagnostic that reports a module, an import or
\* an undefined symbol designates that name in the text of the document.
StrippingKeepsPositions ==
    \A r \in validated :
        /\ Len(StripComments(r.text)) = Len(r.text)
        /\ \A p \in 1..Len(r.text) :
              Ch(r.text, p) \in LineTerminator => Ch(StripComments(r.text), p) = Ch(r.text, p)
        /\ ~r.threw =>
              \A n \in 1..Len(r.diagnostics) :
                  ReportsByName(r.diagnostics[n]) =>
                      Designated(r.text, r.diagnostics[n].range)
                          = Quoted(r.diagnostics[n].message)

\* C23: every local name the import validation records for an import it
\* recognizes (alias or name of a selective import, alias of an aliased
\* import, last segment of a bare import) is in the global scope of the
\* usage validation, and no use of it is reported as an undefined symbol.
ImportedNamesInScope ==
    \A r \in validated :
        ~r.threw =>
            \A n \in 1..Len(Recorded(r)) :
                /\ Recorded(r)[n].name \in GlobalScope(r.uri, indexer)
                /\ \A d \in 1..Len(r.diagnostics) :
                      r.diagnostics[d].message # UndefinedSymbol(Recorded(r)[n].name)

\* The known documents, in the order of the index, whose path ends with the
\* suffix of the module path
Ending(modulePath) ==
    SelectSeq(getKnownUris(indexer), LAMBDA u : EndsWith(u, ExpectedSuffix(modulePath)))

\* C24: the module of an import of the document of a request resolves to the
\* first known document whose path ends with the suffix of its path, to none
\* iff there is none, and the completion takes a document for the module of
\* a wildcard import iff the resolution of validation and definition gives
\* that document.
ModuleResolvedAlike ==
    observed.reader = "completion" =>
        \A imp \in Elems(getImports(indexer, observed.uri)) :
            /\ FindModule(indexer, imp.modulePath).found = (Ending(imp.modulePath) # <<>>)
            /\ FindModule(indexer, imp.modulePath).found =>
                  FindModule(indexer, imp.modulePath).uri = Head(Ending(imp.modulePath))
            /\ imp.isWildcard =>
                  \A u \in Elems(getKnownUris(indexer)) :
                      WildcardCovers(imp, u)
                          = (/\ FindModule(indexer, imp.modulePath).found
                             /\ FindModule(indexer, imp.modulePath).uri = u)

(***************************************************************************)
(* The scope analysis of validateTextDocument, token by token: the         *)
(* documents are open and indexed, the validation of a document has        *)
(* checked its imports, and its loop takes one token of the text at a      *)
(* time.  task keeps the position of the loop and, for each token taken,   *)
(* the token and the state of the analysis after it.                       *)
(***************************************************************************)

\* Texts of a document whose scope analysis is followed
TextStates == "type { a: int }\nlet o = { k: 1 };\nif o { return { k: 2 }; }\nenum E = { A };"
TextEnum == "enum Color = { Red, Green };\nPoint p = { x: 1 };"
TextExterns ==
    "extern(\"C\") puts(int s) -> int;\nextern(\"C\") tick();\n{ extern(\"C\") f(a: int, ...rest); }"
TextImportBraces == "fun g(a) { import from m { add }; return a; }\nfun f(b, c) import from m { add };"
TextTyped == "fun f(a: Foo, int b, c) { return a + b + c; }"
TextArgs == "fun h(x, y) { return x; }\nextern(\"C\") e(z);"
TextStrings == "let s = \"a\" b;\nreturn c;\nint d = q.r;\n( e"
TextImports == "import m;\nimport m as mm;\nimport m.*;\nimport from m { add };\nlet k = nope;"
TextNested == "fun f() {\n  let inner = 1;\n}\nlet k = inner;"
TextNestedInline == "fun g() { let deep = 1; }\nlet j = deep;"
TextParam == "fun f(int a) { }\nlet k = a;"
TextUnterminated == "import m\nimport m as mm\nimport m.*\nimport from m { add }\nlet k = nope;"

\* The tokens of the texts made of every sequence of them, and the length of
\* the longest of these sequences
TokenAlphabet == {"{", "}", "(", ")", ";", "->", "import", "extern", "fun"}
MaxTokens == 3
TokenTexts ==
    {Join(tokens, " ") : tokens \in UNION {[1..n -> TokenAlphabet] : n \in 1..MaxTokens}}

\* Extern declarations after every sequence of less than MaxTokens tokens
ExternForms == {"extern(\"C\") puts(int s) -> int;", "extern(\"C\") tick(a: int, ...rest);"}
ExternTexts ==
    {Join(tokens, " ") \o " " \o form :
        tokens \in UNION {[1..n -> TokenAlphabet] : n \in 1..(MaxTokens - 1)},
        form \in ExternForms}

ScanTexts ==
    {TextStates, TextEnum, TextExterns, TextImportBraces, TextTyped, TextArgs,
     TextStrings, TextAliasHid, TextImports, TextUnterminated, TextNested,
     TextNestedInline, TextParam}
        \cup TokenTexts \cup ExternTexts

\* The token of a match of tokenRegex: the group that matched, its text, its
\* offset
TokenOf(m, cleanText) ==
    [kind |-> IF Has(m, 1) THEN "string"
              ELSE IF Has(m, 5) THEN "arrow"
              ELSE IF Has(m, 2) THEN "keyword"
              ELSE IF Has(m, 6) THEN "punctuation"
              ELSE "identifier",
     value |-> Whole(m, cleanText), index |-> Index(m)]

ScanInit ==
    /\ \E text \in ScanTexts : Opened(<<<<UriM, TextAdd>>, <<UriApp, text>>>>)
    /\ last = [type |-> "init", uri |-> "", before |-> FALSE, same |-> FALSE]
    /\ documentSettings = [u \in Uris |-> "none"]
    /\ hasConfigurationCapability = FALSE
    /\ waiting = {}
    /\ scan = [state |-> "idle", denied |-> {}]
    /\ validated = {}
    /\ task = Idle
    /\ observed = NoResponse

\* validateTextDocument for the open document uri, from its await to the
\* start of the token loop: the imports are checked, the scopes and states
\* initialized
ScanBegin(uri) ==
    /\ task = Idle
    /\ validated = {}
    /\ documents[uri].open
    /\ \E found \in {ValidateLines(StripComments(documents[uri].text), indexer)} :
          IF found.threw
          THEN /\ validated' = {[uri |-> uri, text |-> documents[uri].text]
                                   @@ Analysed(found, uri, documents[uri].text, indexer)}
               /\ task' = task
          ELSE /\ task' = [pc |-> "scan", uri |-> uri, found |-> found, lastIndex |-> 1,
                           start |-> ScanStart(uri, indexer), steps |-> <<>>]
               /\ validated' = validated
    /\ UNCHANGED <<indexerVars, documents, documentSettings,
                   hasConfigurationCapability, waiting, scan, observed>>

\* The state of the analysis after the k-th token of the loop, and before it
After(k) == IF k = 0 THEN task.start ELSE task.steps[k].st
Before(k) == After(k - 1)

\* One turn of the loop: the next token of the text is taken
ScanToken ==
    /\ task.pc = "scan"
    /\ \E cleanText \in {StripComments(documents[task.uri].text)} :
          \E m \in {ExecGlobal(tokenRegex, cleanText, task.lastIndex)} :
              /\ m.ok
              /\ \E st \in {Token(After(Len(task.steps)), m, task.uri,
                                   documents[task.uri].text, cleanText, indexer)} :
                    task' = [task EXCEPT
                                !.lastIndex = m.end,
                                !.steps = Append(@, TokenOf(m, cleanText) @@ [st |-> st])]
    /\ UNCHANGED <<indexerVars, serverVars, observed>>

\* The loop ends when the text has no further token: return diagnostics
ScanEnd ==
    /\ task.pc = "scan"
    /\ ~ExecGlobal(tokenRegex, StripComments(documents[task.uri].text), task.lastIndex).ok
    /\ validated' = {[uri |-> task.uri, text |-> documents[task.uri].text]
                        @@ Scoped(task.found, After(Len(task.steps)))}
    /\ task' = Idle
    /\ UNCHANGED <<indexerVars, documents, documentSettings,
                   hasConfigurationCapability, waiting, scan, observed>>

ScanNext ==
    \/ \E uri \in {UriApp} : ScanBegin(uri)
    \/ ScanToken
    \/ ScanEnd

ScanSpec == ScanInit /\ [][ScanNext]_vars

\* The tokens of the loop taken so far
Taken == IF task.pc = "scan" THEN 1..Len(task.steps) ELSE {}

\* The state on top of the state stack when the k-th token is taken
CurrentState(k) == Top(Before(k).stateStack)

\* C25: at every step of the scope analysis, whatever the tokens, the scope
\* stack is not empty and its bottom is the global scope, the state stack is
\* not empty and its bottom is NORMAL.
StacksKeepTheirBottom ==
    task.pc = "scan" =>
        \A k \in 0..Len(task.steps) :
            /\ Len(After(k).scopeStack) >= 1
            /\ GlobalScope(task.uri, indexer) \subseteq After(k).scopeStack[1]
            /\ Len(After(k).stateStack) >= 1
            /\ After(k).stateStack[1] = "NORMAL"

\* A closing token is taken when nothing but the global scope and NORMAL are
\* on the stacks, and a semicolon closes an import opened at the bottom
StacksKeepTheirBottomWitness ==
    /\ task.pc = "scan"
    /\ \E k \in Taken :
          /\ task.steps[k].value \in {"}", ")"}
          /\ Len(Before(k).scopeStack) = 1
          /\ Before(k).stateStack = <<"NORMAL">>
    /\ \E k \in Taken :
          /\ task.steps[k].value = ";"
          /\ Before(k).stateStack = <<"NORMAL", "IMPORT_STMT">>
          /\ After(k).stateStack = <<"NORMAL">>

\* The k-th token is the punctuation or keyword word
IsToken(k, word) ==
    /\ k \in Taken
    /\ task.steps[k].kind \in {"punctuation", "keyword"}
    /\ task.steps[k].value = word

\* The k-th token is an `=` that directly follows an enum declaration:
\* `enum Name =`
EnumAssigned(k) ==
    /\ IsToken(k, "=")
    /\ k - 1 \in Taken /\ task.steps[k - 1].kind = "identifier"
    /\ IsToken(k - 2, "enum")

\* The state the `{` taken as the k-th token is to push, by the token
\* before it
StateForBrace(k) ==
    IF IsToken(k - 1, "type") THEN "STRUCT_BODY"
    ELSE IF EnumAssigned(k - 1) THEN "ENUM_BODY"
    ELSE IF \E word \in {"=", "(", ",", ":", "return", "["} : IsToken(k - 1, word)
    THEN "OBJECT_LITERAL"
    ELSE "NORMAL"

\* C26: a `{` taken outside IMPORT_STMT pushes STRUCT_BODY iff the token
\* before it is the keyword type, ENUM_BODY iff it is the `=` that directly
\* follows an enum declaration, OBJECT_LITERAL iff it is otherwise one of
\* = ( , : return [, and NORMAL in all other cases.
BraceStateByPrecedingToken ==
    \A k \in Taken :
        IsToken(k, "{") /\ CurrentState(k) # "IMPORT_STMT" =>
            Top(After(k).stateStack) = StateForBrace(k)

\* The `)` that closes the parameters opened by the `(` taken as the k-th
\* token: the first `)` after it, the tokens between being names, types and
\* their separators; 0 when there is none
ParametersClose(k) ==
    LET closes == {c \in Taken : c > k /\ IsToken(c, ")")}
        first(c) ==
            IF \A i \in (k + 1)..(c - 1) :
                  \/ task.steps[i].kind = "identifier"
                  \/ \E word \in {",", ":", "."} : IsToken(i, word)
            THEN c ELSE 0
    IN  IF closes = {} THEN 0
        ELSE first(CHOOSE c \in closes : \A d \in closes : c <= d)

\* The `;` that ends the extern declaration whose parameters close at the
\* c-th token, with or without `-> T`; 0 when the declaration does not end so
ExternEnd(c) ==
    IF c = 0 THEN 0
    ELSE IF IsToken(c + 1, ";") THEN c + 1
    ELSE IF /\ c + 3 \in Taken
            /\ task.steps[c + 1].kind = "arrow"
            /\ task.steps[c + 2].kind = "identifier"
            /\ IsToken(c + 3, ";")
    THEN c + 3
    ELSE 0

\* The k-th token is the extern of a declaration
\* `extern("abi") name(params) [-> T];` taken to its end
ExternDeclaration(k) ==
    /\ IsToken(k, "extern")
    /\ IsToken(k + 1, "(")
    /\ k + 2 \in Taken /\ task.steps[k + 2].kind = "string"
    /\ IsToken(k + 3, ")")
    /\ k + 4 \in Taken /\ task.steps[k + 4].kind = "identifier"
    /\ IsToken(k + 5, "(")
    /\ ExternEnd(ParametersClose(k + 5)) # 0

\* C27: in an extern declaration `extern("abi") name(params) [-> T];` the
\* first `(` pushes EXTERN_ABI, the second `(` pushes FUN_ARGS, each `)` pops
\* the state its `(` pushed, and after the `;` the state stack is the stack
\* before the extern keyword and the parameter buffer is empty.
ExternRestoresStates ==
    \A k \in Taken :
        ExternDeclaration(k) =>
            /\ After(k + 1).stateStack = Append(Before(k + 1).stateStack, "EXTERN_ABI")
            /\ After(k + 3).stateStack = Before(k + 1).stateStack
            /\ After(k + 5).stateStack = Append(Before(k + 5).stateStack, "FUN_ARGS")
            /\ After(ParametersClose(k + 5)).stateStack = Before(k + 5).stateStack
            /\ After(ExternEnd(ParametersClose(k + 5))).stateStack = Before(k).stateStack
            /\ After(ExternEnd(ParametersClose(k + 5))).pendingArgs = <<>>

\* An extern declaration with a return type and parameters in the buffer is
\* taken to its end, and one inside a block
ExternRestoresStatesWitness ==
    /\ \E k \in Taken :
          /\ ExternDeclaration(k)
          /\ ExternEnd(ParametersClose(k + 5)) = ParametersClose(k + 5) + 3
          /\ Before(ExternEnd(ParametersClose(k + 5))).pendingArgs # <<>>
    /\ \E k \in Taken :
          /\ ExternDeclaration(k)
          /\ Len(Before(k).stateStack) > 1
          /\ ExternEnd(ParametersClose(k + 5)) = ParametersClose(k + 5) + 1

\* C28: a `{` or a `}` taken while the current state is IMPORT_STMT pushes,
\* respectively pops, IMPORT_STMT on the state stack and leaves the scope
\* stack and the parameter buffer as they are.
ImportBracesKeepScopes ==
    \A k \in Taken :
        CurrentState(k) = "IMPORT_STMT" /\ (IsToken(k, "{") \/ IsToken(k, "}")) =>
            /\ After(k).scopeStack = Before(k).scopeStack
            /\ After(k).pendingArgs = Before(k).pendingArgs
            /\ After(k).stateStack =
                  IF IsToken(k, "{") THEN Append(Before(k).stateStack, "IMPORT_STMT")
                  ELSE Pop(Before(k).stateStack)

\* The braces of an import list are taken with parameters in the buffer, and
\* inside the scope of a block
ImportBracesKeepScopesWitness ==
    /\ \E k \in Taken :
          /\ CurrentState(k) = "IMPORT_STMT" /\ IsToken(k, "{")
          /\ Before(k).pendingArgs # <<>>
          /\ \E j \in Taken :
                j > k /\ CurrentState(j) = "IMPORT_STMT" /\ IsToken(j, "}")
    /\ \E k \in Taken :
          /\ CurrentState(k) = "IMPORT_STMT" /\ IsToken(k, "}")
          /\ Len(Before(k).scopeStack) > 1

\* The text of the document under analysis without its comments
ScannedText == StripComments(documents[task.uri].text)

\* The k-th token is an identifier that reaches the rule of the function
\* arguments: it is in FUN_ARGS, no member, and no declaration rule took it
ReachesArguments(k) ==
    /\ task.steps[k].kind = "identifier"
    /\ CurrentState(k) = "FUN_ARGS"
    /\ ~IsMemberAccess(ScannedText, task.steps[k].index)
    /\ Before(k).lastToken \notin declarationKeywords
    /\ ~(~Before(k).lastTokenWasKeyword /\ LooksLikeIdentifier(Before(k).lastToken))

\* C29: an identifier that reaches the rule of FUN_ARGS and is followed by
\* ':' is not validated; any other is buffered as a parameter name and not
\* validated; the scope a `{` outside an import opens has exactly the
\* buffered names, and the buffer is empty after that `{` and after a `;`.
ArgumentsBuffered ==
    \A k \in Taken :
        /\ ReachesArguments(k) =>
              /\ After(k).usages = Before(k).usages
              /\ After(k).diagnostics = Before(k).diagnostics
              /\ ~BeforeColon(ScannedText, task.steps[k].index, task.steps[k].value) =>
                    After(k).pendingArgs = Append(Before(k).pendingArgs, task.steps[k].value)
        /\ IsToken(k, "{") /\ CurrentState(k) # "IMPORT_STMT" =>
              /\ After(k).scopeStack
                    = Append(Before(k).scopeStack, Elems(Before(k).pendingArgs))
              /\ After(k).pendingArgs = <<>>
        /\ IsToken(k, ";") => After(k).pendingArgs = <<>>

\* The k-th token is an identifier the declaration rule may take: the state
\* is none of those that skip identifiers, and it is no member
ReachesDeclarations(k) ==
    /\ task.steps[k].kind = "identifier"
    /\ CurrentState(k) \notin {"IMPORT_STMT", "RETURN_TYPE", "EXTERN_ABI", "ENUM_BODY"}
    /\ ~IsMemberAccess(ScannedText, task.steps[k].index)

\* The declaration rule takes the identifier: the last token is a
\* declaration keyword, or no keyword and looks like an identifier
ByDeclarationRule(st) ==
    \/ st.lastToken \in declarationKeywords
    \/ ~st.lastTokenWasKeyword /\ LooksLikeIdentifier(st.lastToken)

\* The token before the k-th is a declaration keyword or an identifier
AfterKeywordOrIdentifier(k) ==
    /\ k - 1 \in Taken
    /\ \/ task.steps[k - 1].kind = "identifier"
       \/ /\ task.steps[k - 1].kind = "keyword"
          /\ task.steps[k - 1].value \in declarationKeywords

\* C30: outside IMPORT_STMT, RETURN_TYPE, EXTERN_ABI and ENUM_BODY an
\* identifier that is no member is declared in the innermost scope by the
\* declaration rule iff the token before it is a declaration keyword or an
\* identifier: not after a string literal, another keyword or punctuation.
DeclaredIffAfterKeywordOrIdentifier ==
    \A k \in Taken :
        ReachesDeclarations(k) =>
            /\ ByDeclarationRule(Before(k)) = AfterKeywordOrIdentifier(k)
            /\ ByDeclarationRule(Before(k)) =>
                  /\ task.steps[k].value \in Top(After(k).scopeStack)
                  /\ After(k).usages = Before(k).usages

\* The group of a diagnostic in the order of discovery: 1 for the errors of
\* the import validation, 2 for the unused-import warnings, 3 for the
\* undefined-symbol errors
Group(d) ==
    IF StartsAt(d.message, "Undefined symbol '", 1) THEN 3
    ELSE IF d.severity = "Warning" THEN 2
    ELSE 1

\* The range of d starts no later in the text than the range of e
NotAfter(d, e) ==
    \/ d.range.start.line < e.range.start.line
    \/ /\ d.range.start.line = e.range.start.line
       /\ d.range.start.character <= e.range.start.character

\* The usages the scope analysis found in no scope and in no wildcard import
Unresolved(r) ==
    SelectSeq(r.usages, LAMBDA u : ~u.scoped /\ ~ByWildcard(r.uri, indexer, u.name))

\* C31: in the diagnostics of one validation the import errors precede the
\* unused-import warnings, which precede the undefined-symbol errors; within
\* a group they follow the position in the text; and every unresolved usage
\* has its own undefined-symbol error, none removed or merged.
DiagnosticsInDiscoveryOrder ==
    \A r \in validated :
        ~r.threw =>
            /\ \A i, j \in 1..Len(r.diagnostics) :
                  i < j =>
                      /\ Group(r.diagnostics[i]) <= Group(r.diagnostics[j])
                      /\ Group(r.diagnostics[i]) = Group(r.diagnostics[j]) =>
                            NotAfter(r.diagnostics[i], r.diagnostics[j])
            /\ SelectSeq(r.diagnostics, LAMBDA d : Group(d) = 3)
                  = [n \in 1..Len(Unresolved(r)) |->
                        Diagnostic("Error",
                                   Range(PositionAt(r.text, Unresolved(r)[n].index).line,
                                         PositionAt(r.text, Unresolved(r)[n].index).character,
                                         PositionAt(r.text, Unresolved(r)[n].index).line,
                                         PositionAt(r.text, Unresolved(r)[n].index).character
                                             + Len(Unresolved(r)[n].name)),
                                   UndefinedSymbol(Unresolved(r)[n].name))]

(***************************************************************************)
(* The three readers of the index together: diagnostics, completion and    *)
(* definition requests on documents indexed in any order                   *)
(***************************************************************************)

\* The texts of the importing document the readers are asked about
ReadTexts == {TextOwn, TextWild, TextLib}

\* The change events before the requests: the two modules m and the
\* importing document, the module of src known first, last, or after the
\* module of src/lib
ReadOpenings ==
    UNION {{<<<<UriM, TextAdd>>, <<UriLibM, TextHid>>, <<UriApp, text>>>>,
            <<<<UriLibM, TextHid>>, <<UriApp, text>>, <<UriM, TextAdd>>>>,
            <<<<UriApp, text>>, <<UriLibM, TextHid>>, <<UriM, TextAdd>>>>} :
           text \in ReadTexts}

ReadInit ==
    /\ \E opened \in ReadOpenings : Opened(opened)
    /\ last = [type |-> "init", uri |-> "", before |-> FALSE, same |-> FALSE]
    /\ documentSettings = [u \in Uris |-> "none"]
    /\ hasConfigurationCapability = FALSE
    /\ waiting = {}
    /\ scan = [state |-> "idle", denied |-> {}]
    /\ validated = {}
    /\ task = Idle
    /\ observed = NoResponse

ReadNext ==
    \/ Respond
    \/ \E uri \in Uris : Analyse(uri)
    \/ \E uri \in {UriApp} : \E line \in LinesOf(uri) : Completion(uri, line)
    \/ \E uri \in {UriApp} : \E line \in LinesOf(uri) :
          \E character \in CharactersOf(uri, line) : Definition(uri, line, character)

ReadSpec == ReadInit /\ [][ReadNext]_vars

\* A step in which a validation completes or a request is answered
Answered ==
    \/ validated' # validated
    \/ observed' # observed /\ observed' # NoResponse

ModulePaths == {"m", "lib.m", "app"}

\* C33: re-indexing a known document with the text it is indexed with does
\* not change the document any module path resolves to, also when several
\* known documents share the suffix of the path.
ReindexKeepsResolution ==
    [][(last'.type = "update" /\ last'.before /\ last'.same) =>
          \A M \in ModulePaths : FindModule(indexer', M) = FindModule(indexer, M)]_vars

\* C34: whatever the order of the content-change events and the initial
\* workspace scan, the index entry of an open document is the one extracted
\* from the text of its latest content-change event.
OpenDocumentIndexedFromLatestChange ==
    \A d \in Openable :
        documents[d].open =>
            /\ getSymbolsInUri(indexer, d) = Parse(d, documents[d].text).symbols
            /\ getImports(indexer, d) = Parse(d, documents[d].text).imports

\* The tokens taken on the line l of the scanned document
TokensOn(l) ==
    {k \in Taken :
        PositionAt(StripComments(documents[task.uri].text), task.steps[k].index).line = l}

\* The lines of the scanned document that hold an import statement, each
\* the whole of its line, and taken to the end: a token of a later line has
\* been taken
ImportStatements ==
    {l \in {getImports(indexer, task.uri)[n].range.start.line :
                n \in 1..Len(getImports(indexer, task.uri))} :
        /\ \E n \in 1..Len(getImports(indexer, task.uri)) :
              /\ getImports(indexer, task.uri)[n].range.start.line = l
              /\ getImports(indexer, task.uri)[n].range.end.line = l
        /\ \E k \in TokensOn(l) :
              IsToken(k, "import") /\ \A j \in TokensOn(l) : k <= j
        /\ \E k \in Taken : \A j \in TokensOn(l) : k > j}

\* The first and the last token of the line l
FirstOn(l) == CHOOSE k \in TokensOn(l) : \A j \in TokensOn(l) : k <= j
LastOn(l) == CHOOSE k \in TokensOn(l) : \A j \in TokensOn(l) : k >= j

\* C35: for every import statement, of any of the four forms, ended by `;`
\* or not, the state stack after its last token is the state stack before
\* its import keyword, so the statement that follows is analysed in the
\* state that held before the import.
ImportRestoresStates ==
    task.pc = "scan" =>
        \A l \in ImportStatements :
            After(LastOn(l)).stateStack = Before(FirstOn(l)).stateStack

\* The number of blocks open when the k-th token is taken: the `{` before it
\* less the `}` before it
BraceDepth(k) ==
    Cardinality({j \in Taken : j < k /\ IsToken(j, "{")})
        - Cardinality({j \in Taken : j < k /\ IsToken(j, "}")})

\* The k-th token is an identifier the analysis takes as a declaration, or
\* as a usage
DeclaresAt(k) ==
    /\ k \in Taken
    /\ task.steps[k].kind = "identifier"
    /\ Len(After(k).declared) > Len(Before(k).declared)
UsesAt(k) ==
    /\ k \in Taken
    /\ task.steps[k].kind = "identifier"
    /\ Len(After(k).usages) > Len(Before(k).usages)

\* The names the document has without declaring them: the builtins, the
\* names of its imports, the known roots
Provided(uri, idx) ==
    builtins
        \cup UNION {ImportScope(imp) : imp \in Elems(getImports(idx, uri))}
        \cup UNION {KnownRoot(u) : u \in Elems(getKnownUris(idx))}

\* The block in which the k-th token lies is closed before the j-th token
ClosedBefore(k, j) ==
    \E c \in Taken :
        /\ k < c /\ c < j
        /\ IsToken(c, "}")
        /\ BraceDepth(c + 1) < BraceDepth(k)

\* The j-th token uses a name that is declared before it, only inside
\* blocks that are closed by then, and that is not provided otherwise
UsedOutsideItsBlock(j) ==
    /\ UsesAt(j)
    /\ task.steps[j].value \notin Provided(task.uri, indexer)
    /\ ~ByWildcard(task.uri, indexer, task.steps[j].value)
    /\ \E k \in Taken : DeclaresAt(k) /\ task.steps[k].value = task.steps[j].value
    /\ \A k \in Taken :
          DeclaresAt(k) /\ task.steps[k].value = task.steps[j].value =>
              /\ BraceDepth(k) > 0
              /\ ClosedBefore(k, j)

\* C36: a name declared only inside a nested block, neither imported nor
\* built in nor declared at top level, is not resolvable after the closing
\* `}` of the block: its usage outside the block is reported as an
\* undefined symbol.
BlockNamesEndWithBlock ==
    \A j \in Taken :
        UsedOutsideItsBlock(j) =>
            /\ ~After(j).usages[Len(After(j).usages)].scoped
            /\ Len(After(j).diagnostics) = Len(Before(j).diagnostics) + 1
            /\ After(j).diagnostics[Len(After(j).diagnostics)].message
                  = UndefinedSymbol(task.steps[j].value)

\* The k-th token is the name of a `Type name` parameter of a function
\* declaration `fun f(...)`: an identifier after an identifier that follows
\* the `(` or a `,` of the parameter list
TypedParameter(k) ==
    /\ k \in Taken /\ k - 1 \in Taken
    /\ task.steps[k].kind = "identifier"
    /\ task.steps[k - 1].kind = "identifier"
    /\ CurrentState(k) = "FUN_ARGS"
    /\ IsToken(k - 2, "(") \/ IsToken(k - 2, ",")
    /\ \E p \in Taken :
          /\ p < k /\ IsToken(p, "(") /\ IsToken(p - 2, "fun")
          /\ \A i \in (p + 1)..(k - 1) : ~IsToken(i, "(") /\ ~IsToken(i, ")")

\* The j-th token uses the name of the parameter taken as the k-th token
\* after the body of its function is closed, the name being declared nowhere
\* else and not provided otherwise
UsedAfterBody(k, j) ==
    /\ j > k
    /\ UsesAt(j)
    /\ task.steps[j].value = task.steps[k].value
    /\ task.steps[j].value \notin Provided(task.uri, indexer)
    /\ ~ByWildcard(task.uri, indexer, task.steps[j].value)
    /\ \A d \in Taken : DeclaresAt(d) /\ task.steps[d].value = task.steps[k].value => d = k
    /\ \E c \in Taken :
          /\ k < c /\ c < j
          /\ IsToken(c, "}")
          /\ BraceDepth(c + 1) = BraceDepth(k)

\* C37: the name of a `Type name` parameter is added to no enclosing scope
\* when it is taken, it is in the scope the `{` of the body opens, and a
\* usage of it after the `}` of the body is reported as an undefined symbol
\* unless the name is declared elsewhere.
ParametersOnlyInBody ==
    \A k \in Taken :
        TypedParameter(k) =>
            /\ After(k).scopeStack = Before(k).scopeStack
            /\ \A b \in Taken :
                  /\ b > k /\ IsToken(b, "{")
                  /\ \A i \in (k + 1)..(b - 1) : ~IsToken(i, "{") /\ ~IsToken(i, ";")
                  => task.steps[k].value \in Top(After(b).scopeStack)
            /\ \A j \in Taken :
                  UsedAfterBody(k, j) =>
                      /\ ~After(j).usages[Len(After(j).usages)].scoped
                      /\ Len(After(j).diagnostics) = Len(Before(j).diagnostics) + 1

\* The Symbols an auto-import item of the last completion was made for
AutoImported(item) ==
    {s \in Elems(getAllSymbols(indexer)) :
        /\ Importable(s, observed.uri)
        /\ ModulePath(s.uri) # ""
        /\ item = AutoImport(s, ModulePath(s.uri))}

\* `import from modulePath { name }` passes the validation of a selective
\* import: the module is found, the first Symbol of the name in it exists
\* and is public
ImportAccepted(modulePath, name) ==
    LET judged(module) ==
            /\ module.found
            /\ FindSymbol(getSymbolsInUri(indexer, module.uri), name).found
            /\ FindSymbol(getSymbolsInUri(indexer, module.uri), name).sym.isPublic
    IN  judged(FindModule(indexer, modulePath))

\* C38: the module path written into the text edit of an auto-import item
\* resolves, on the same index, to a document in which the name of the item
\* is a public Symbol, so the inserted import gives neither a module not
\* found, nor a not found, nor a not public error.
AutoImportRoundTrips ==
    observed.reader = "completion" =>
        \A n \in 1..Len(observed.items) :
            \A s \in AutoImported(observed.items[n]) :
                ImportAccepted(ModulePath(s.uri), s.name)

\* What the records of a document declare and import, positions apart
Declarations(symbols) == [n \in 1..Len(symbols) |-> symbols[n].name]
Importations(imports) ==
    [n \in 1..Len(imports) |->
        [modulePath |-> imports[n].modulePath, isWildcard |-> imports[n].isWildcard,
         names |-> imports[n].names]]

\* C39: text inside a line comment or a block comment gives no Symbol and
\* no Import record: the index of a document declares and imports what the
\* comment-stripped text, the one the validation of the document has read,
\* declares and imports.
CommentsNeverIndexed ==
    \A r \in validated :
        /\ Declarations(getSymbolsInUri(indexer, r.uri))
              = Declarations(Extract(r.uri, StripComments(r.text)).symbols)
        /\ Importations(getImports(indexer, r.uri))
              = Importations(Extract(r.uri, StripComments(r.text)).imports)

=============================================================================
